---- MODULE Spec2Model ----
(***************************************************************************)
(* NetCommand: the upgrade orchestrator (netcommandlib/upgrade.py), the    *)
(* version comparator (netcommandlib/version.py) and the prompt-wait       *)
(* engine (netcommandlib/connection.py).                                   *)
(*                                                                         *)
(* Python strings are sequences of one-character strings, so that strip,   *)
(* split, int and decode are computed as the code computes them.           *)
(***************************************************************************)
EXTENDS Integers, Sequences, FiniteSets, TLC

VARIABLES
    \* ---- generic_upgrade (upgrade.py) ----
    u_pc,             \* position inside generic_upgrade
    dev_version,      \* software version the device reports (model state)
    dev_platform,     \* platform the device reports (model state)
    image,            \* GenericImage: [version, platform]
    extra_images,     \* list of GenericImage
    dry_run,          \* the dry_run argument
    current_version,  \* local variable current_version (line 19)
    extra_idx,        \* position of the for loop over extra_images (line 41)
    upgrade_result,   \* local variable result (line 71)
    updated_version,  \* local variable updated_version (line 77)
    calls,            \* the model calls made so far, in order, each with
                      \* how it ended
    u_ret,            \* what generic_upgrade gave back to its caller
    \* ---- wait_prompt_with_callback (connection.py) ----
    w_pc,             \* "loop" while inside the while True, else "done"
    stream,           \* bytes the device will still deliver, in order
    prompt,           \* the prompt argument
    timeout,          \* the timeout argument
    min_input_length, \* the min_input_length argument
    row_callback,     \* the row_callback argument (a name, or "None")
    data,             \* local variable data, as the while loop has it
    times_sleep,      \* local variable times_sleep
    at_prompt,        \* local variable at_prompt
    sent,             \* what send_function was called with, in order
    cb_rows,          \* the rows row_callback was called with in the
                      \* latest iteration, in order
    w_text,           \* the text of the returned pair (line 120)
    w_ret,            \* "running", "returned" or the exception raised
    \* ---- TelnetConnection and SSHConnection (connection.py) ----
    s_kind,           \* "telnet" or "ssh": the class of the session
    script,           \* all the bytes the device sends in this session
    s_login_dialog,   \* _login_dialog: "None" or "login_dialog"
    s_channel,        \* _channel: "None", "socket" or "shell"
    s_at_prompt,      \* _at_prompt
    s_pc,             \* "idle" between calls, or where the call under way
                      \* waits: "login", "wait_prompt" or "engine"
    s_op,             \* the method called last: "connect" or "run_interactive"
    s_lazy,           \* connect() was called by the channel property
    s_timeout,        \* the timeout argument of run_interactive
    s_row_callback,   \* the row_callback argument of run_interactive
    wp_data,          \* local variable data of _wait_prompt
    wire,             \* the commands written to the channel, in order, each
                      \* with _at_prompt as it was then and on entry, and
                      \* with what _wait_prompt had read
    s_ret,            \* how the call ended: "returned" or the exception
    connects,         \* how many times the transport was opened
    logins,           \* how many times the login dialog was run
    runs,             \* how many times run_interactive was called
    \* ---- reopen and expect_disconnect (connection.py) ----
    c_kind,           \* "ssh" or "telnet": the class of the session
    c_jump_host,      \* jump_host is set (SSH)
    c_pc,             \* "new" inside __init__, "idle" between calls, or the
                      \* position inside the call under way
    c_op,             \* the method called last
    c_timeout,        \* the timeout argument of reopen, in seconds
    c_i,              \* loop variable i of wait_connection
    c_clock,          \* seconds since reopen took time_start
    c_up_at,          \* the second, counted from time_start, from which the
                      \* target port accepts TCP connections
    c_refuses,        \* a probe of the closed port fails at once (refused)
                      \* instead of after its 5 second timeout
    c_failure,        \* how a handshake with the device ends: "none" when it
                      \* succeeds, else the kind of failure
    c_connection,     \* _connection (SSH) or _channel (Telnet): "None",
                      \* "open" or "closed"
    c_channel,        \* _channel of an SSH session: "None" or "open"
    c_generation,     \* how many times _connection was assigned
    j_sessions,       \* how many jump-host session objects were created
    j_connection,     \* _connection of the jump-host session
    c_events,         \* what the call under way has done so far, in order
    c_ret,            \* how the call ended: "returned" or the exception
    c_at_prompt,      \* _at_prompt of an SSH session
    c_prompt,         \* prompt of an SSH session: "initial", or "set" after
                      \* set_prompt
    c_channel_on,     \* the value c_generation had when the latest shell
                      \* channel was opened, 0 before the first
    j_open,           \* how many connections to the jump host are open
    \* ---- compare_version (version.py) and expect_strings (expect.py) ----
    v_a,              \* argument a of compare_version
    v_b,              \* argument b of compare_version
    v_s,              \* a suffix appended to a
    v_t,              \* a suffix appended to b
    v_op,             \* which calls were made: "none" before them
    v_ret,            \* the outcome of compare_version(a, b)
    v_other,          \* the outcome of the second call
    e_answers,        \* the dict given to expect_strings, in insertion order
    e_row,            \* the row given to the handler
    e_op,             \* "none" before the handler is called, then "handled"
    e_ret,            \* what the handler returned
    \* ---- upgrade of the models (models/) and update (netcommand.py) ----
    m_proc,           \* the upgrade method called: "RouterOS.upgrade" or
                      \* "DellN.upgrade"
    m_dry_run,        \* its dry_run argument
    m_pending,        \* RouterOS: upgrade-firmware differs from
                      \* current-firmware
    m_pc,             \* position inside the method
    m_i,              \* RouterOS: loop variable i of the wait for the
                      \* firmware upgrade
    m_log,            \* the commands executed and the calls of
                      \* expect_disconnect so far, in order
    m_ret,            \* how the method ended: "True", "False" or the
                      \* exception
    d_status          \* result["status"] of update

u_vars == <<u_pc, dev_version, dev_platform, image, extra_images, dry_run,
            current_version, extra_idx, upgrade_result, updated_version,
            calls, u_ret>>

w_vars == <<w_pc, stream, prompt, timeout, min_input_length, row_callback,
            data, times_sleep, at_prompt, sent, cb_rows, w_text, w_ret>>

s_vars == <<s_kind, script, s_login_dialog, s_channel, s_at_prompt, s_pc,
            s_op, s_lazy, s_timeout, s_row_callback, wp_data, wire, s_ret,
            connects, logins, runs>>

c_vars == <<c_kind, c_jump_host, c_pc, c_op, c_timeout, c_i, c_clock, c_up_at,
            c_refuses, c_failure, c_connection, c_channel, c_generation,
            j_sessions, j_connection, c_events, c_ret, c_at_prompt, c_prompt,
            c_channel_on, j_open>>

f_vars == <<v_a, v_b, v_s, v_t, v_op, v_ret, v_other, e_answers, e_row, e_op,
            e_ret>>

m_vars == <<m_proc, m_dry_run, m_pending, m_pc, m_i, m_log, m_ret, d_status>>

vars == <<u_vars, w_vars, s_vars, c_vars, f_vars, m_vars>>

-----------------------------------------------------------------------------
(* Bounds *)

MaxExtra == 2        \* longest extra_images list
MaxStream == 4       \* most bytes a device sends in one wait
MaxTimeout == 2      \* largest timeout argument
MaxMinLen == 2       \* largest min_input_length argument
MaxScript == 2       \* most bytes in what an endless device repeats
MaxBuffer == 3       \* most characters an endless device gets into data
MaxRuns == 2         \* most calls of run_interactive on one session
MaxParts == 2        \* most dot-separated parts of a generated version
MaxAnswers == 2      \* most keys of an answer table
MaxRow == 2          \* most characters of a row given to a handler
MaxRounds == 3       \* most rounds of wait_connection
MaxReopens == 2      \* most reconnects of one session
MaxJumpHost == 3     \* a reconnect begins with at most this many connections
                     \* to the jump host open

-----------------------------------------------------------------------------
(* Python string helpers *)

IsSpace(c) == c \in {" ", "\n", "\r", "\t"}

RECURSIVE lstrip(_)
lstrip(s) ==
    IF s = <<>> THEN <<>>
    ELSE IF IsSpace(Head(s)) THEN lstrip(Tail(s)) ELSE s

RECURSIVE rstrip(_)
rstrip(s) ==
    IF s = <<>> THEN <<>>
    ELSE IF IsSpace(s[Len(s)]) THEN rstrip(SubSeq(s, 1, Len(s) - 1)) ELSE s

\* str.strip()
strip(s) == rstrip(lstrip(s))

\* index of the first occurrence of character c in s, 0 when absent
RECURSIVE find(_, _, _)
find(s, c, i) ==
    IF i > Len(s) THEN 0
    ELSE IF s[i] = c THEN i ELSE find(s, c, i + 1)

\* str.split(sep) for a one-character separator: the list of fields
RECURSIVE split(_, _)
split(s, sep) ==
    LET i == find(s, sep, 1) IN
    IF i = 0 THEN <<s>>
    ELSE <<SubSeq(s, 1, i - 1)>> \o split(SubSeq(s, i + 1, Len(s)), sep)

\* str.startswith(p)
startswith(s, p) == Len(s) >= Len(p) /\ SubSeq(s, 1, Len(p)) = p

\* str.endswith(suffix)
endswith(s, suffix) ==
    /\ Len(suffix) <= Len(s)
    /\ SubSeq(s, Len(s) - Len(suffix) + 1, Len(s)) = suffix

Digits == {"0", "1", "2", "3", "4", "5", "6", "7", "8", "9"}

DigitValue(c) ==
    CASE c = "0" -> 0 [] c = "1" -> 1 [] c = "2" -> 2 [] c = "3" -> 3
      [] c = "4" -> 4 [] c = "5" -> 5 [] c = "6" -> 6 [] c = "7" -> 7
      [] c = "8" -> 8 [] c = "9" -> 9

\* int(x) accepts surrounding whitespace, a sign, and decimal digits with
\* single underscores between them; anything else (the empty string
\* included) is a ValueError
IntParses(x) ==
    LET t == strip(x)
        d == IF t # <<>> /\ t[1] \in {"+", "-"} THEN Tail(t) ELSE t IN
    /\ d # <<>>
    /\ \A i \in 1..Len(d) :
        \/ d[i] \in Digits
        \/ /\ d[i] = "_"
           /\ 1 < i /\ i < Len(d)
           /\ d[i - 1] \in Digits /\ d[i + 1] \in Digits

RECURSIVE DecimalValue(_)
DecimalValue(t) ==
    IF t = <<>> THEN 0
    ELSE IF t[Len(t)] = "_" THEN DecimalValue(SubSeq(t, 1, Len(t) - 1))
    ELSE 10 * DecimalValue(SubSeq(t, 1, Len(t) - 1)) + DigitValue(t[Len(t)])

int(x) ==
    LET t == strip(x) IN
    IF t # <<>> /\ t[1] = "-" THEN 0 - DecimalValue(Tail(t))
    ELSE IF t # <<>> /\ t[1] = "+" THEN DecimalValue(Tail(t))
    ELSE DecimalValue(t)

-----------------------------------------------------------------------------
(* version.py: compare_version *)

\* Release without the split at "-": the suffix stays in the last field
Release_KeepsSuffix(a) == strip(a)

\* a.strip().split("-")[0]
Release(a) == split(strip(a), "-")[1]

\* [int(x) for x in a.split(".")] is defined
VersionParses(a) ==
    LET fields == split(Release(a), ".") IN
    \A i \in 1..Len(fields) : IntParses(fields[i])

Parts(a) ==
    LET fields == split(Release(a), ".") IN
    [i \in 1..Len(fields) |-> int(fields[i])]

Max(x, y) == IF x >= y THEN x ELSE y

\* Pad filling up with the last part instead of 0
Pad_RepeatsLast(parts, n) ==
    [i \in 1..n |-> IF i <= Len(parts) THEN parts[i] ELSE parts[Len(parts)]]

\* a_parts += [0] * (max_parts - len(a_parts))
Pad(parts, n) == [i \in 1..n |-> IF i <= Len(parts) THEN parts[i] ELSE 0]

\* ComparePartsFrom without the test of line 74
RECURSIVE ComparePartsFrom_NoLowerTest(_, _, _)
ComparePartsFrom_NoLowerTest(a_parts, b_parts, idx) ==
    IF idx > Len(a_parts) THEN 0
    ELSE IF a_parts[idx] > b_parts[idx] THEN 1
    ELSE ComparePartsFrom_NoLowerTest(a_parts, b_parts, idx + 1)

\* lines 71-76: the for loop over range(max_parts)
RECURSIVE ComparePartsFrom(_, _, _)
ComparePartsFrom(a_parts, b_parts, idx) ==
    IF idx > Len(a_parts) THEN 0
    ELSE IF a_parts[idx] > b_parts[idx] THEN 1
    ELSE IF a_parts[idx] < b_parts[idx] THEN -1
    ELSE ComparePartsFrom(a_parts, b_parts, idx + 1)

\* compare_version parsing b only as far as the comparison needs it: a
\* malformed b is taken as the higher version
compare_version_ChecksFirstArgument(a, b) ==
    IF ~VersionParses(a) THEN [raises |-> TRUE, value |-> 0]
    ELSE IF ~VersionParses(b) THEN [raises |-> FALSE, value |-> 0 - 1]
    ELSE LET max_parts == Max(Len(Parts(a)), Len(Parts(b))) IN
         [raises |-> FALSE,
          value  |-> ComparePartsFrom(Pad(Parts(a), max_parts),
                                      Pad(Parts(b), max_parts), 1)]

\* compare_version(a, b): raises ValueError, or returns -1, 0 or 1
compare_version(a, b) ==
    IF ~(VersionParses(a) /\ VersionParses(b))
    THEN [raises |-> TRUE, value |-> 0]
    ELSE LET max_parts == Max(Len(Parts(a)), Len(Parts(b))) IN
         [raises |-> FALSE,
          value  |-> ComparePartsFrom(Pad(Parts(a), max_parts),
                                      Pad(Parts(b), max_parts), 1)]

-----------------------------------------------------------------------------
(* upgrade.py: generic_upgrade *)

None == "None"

Platforms == {"arm", "x86"}

\* "0.9", "1.0", "1.0.0", "1.1-b", "1.10": with these, two versions can be
\* lower, higher, equal as strings, or equal only as versions
UpgradeVersions ==
    { <<"0", ".", "9">>,
      <<"1", ".", "0">>,
      <<"1", ".", "0", ".", "0">>,
      <<"1", ".", "1", "-", "b">>,
      <<"1", ".", "1", "0">> }

\* image.GenericImage
GenericImage == [version : UpgradeVersions, platform : Platforms]

SeqsUpTo(S, n) == UNION {[1..k -> S] : k \in 0..n}

\* CheckImage without the test of line 28: a lower version reaches line 34
CheckImage_NoDowngradeTest(img, cur, plat) ==
    IF img.platform # plat THEN "False"
    ELSE LET c == compare_version(img.version, cur) IN
         IF c.raises THEN "ValueError"
         ELSE IF c.value < 1 THEN "True"
         ELSE "continue"

\* CheckImage without the test of line 22
CheckImage_NoPlatformTest(img, cur, plat) ==
    LET c == compare_version(img.version, cur) IN
    IF c.raises THEN "ValueError"
    ELSE IF c.value < 0 THEN "False"
    ELSE IF c.value < 1 THEN "True"
    ELSE "continue"

\* CheckImage with line 34 testing < 0 as line 28 does: an equal version
\* falls through to the upgrade
CheckImage_EqualContinues(img, cur, plat) ==
    IF img.platform # plat THEN "False"
    ELSE LET c == compare_version(img.version, cur) IN
         IF c.raises THEN "ValueError"
         ELSE IF c.value < 0 THEN "False"
         ELSE "continue"

\* lines 22-39: the verdict on the main image; "continue" falls through
CheckImage(img, cur, plat) ==
    IF img.platform # plat THEN "False"
    ELSE LET c == compare_version(img.version, cur) IN
         IF c.raises THEN "ValueError"
         ELSE IF c.value < 0 THEN "False"
         ELSE IF c.value < 1 THEN "True"
         ELSE "continue"

\* CheckExtraImage without the test of line 42
CheckExtraImage_NoPlatformTest(extra_image, cur, plat) ==
    LET c == compare_version(extra_image.version, cur) IN
    IF c.raises THEN "ValueError"
    ELSE IF c.value < 0 THEN "False"
    ELSE IF c.value < 1 THEN "True"
    ELSE "continue"

\* lines 42-62: the verdict of one iteration of the loop over extra_images
CheckExtraImage(extra_image, cur, plat) ==
    IF extra_image.platform # plat THEN "False"
    ELSE LET c == compare_version(extra_image.version, cur) IN
         IF c.raises THEN "ValueError"
         ELSE IF c.value < 0 THEN "False"
         ELSE IF c.value < 1 THEN "True"
         ELSE "continue"

\* PostCheck accepting any version higher than the one before the upgrade
PostCheck_AcceptsAnyNewer(updated, img, cur, dry) ==
    IF dry THEN "True"
    ELSE LET c == compare_version(cur, updated) IN
         IF c.raises THEN "ValueError"
         ELSE IF c.value < 0 THEN "True"
         ELSE "False"

\* lines 80-102: the verdict after model.upgrade returned a truthy result
PostCheck(updated, img, cur, dry) ==
    IF dry THEN "True"
    ELSE LET c == compare_version(updated, img.version) IN
         IF c.raises THEN "ValueError"
         ELSE IF c.value = 0 THEN "True"
         ELSE IF compare_version(cur, updated).raises THEN "ValueError"
         ELSE "False"

\* one call of a method of the model, and how it ended: "returned",
\* "raised", or for model.upgrade "truthy" or "falsy"
Call(method, result) == [call |-> method, result |-> result]

Query(method) == Call(method, "returned")

\* the model calls of lines 19-24; the error message of line 24 calls
\* model.get_platform() once more
StartCalls(img, plat) ==
    <<Query("get_software_version"), Query("get_firmware_version"),
      Query("get_platform")>>
    \o (IF img.platform # plat THEN <<Query("get_platform")>> ELSE <<>>)

\* the model calls of one loop iteration, lines 42-44
ExtraCalls(extra_image, plat) ==
    <<Query("get_platform")>>
    \o (IF extra_image.platform # plat THEN <<Query("get_platform")>> ELSE <<>>)

\* the model calls of lines 77-78
PostCalls == <<Query("get_software_version"), Query("get_firmware_version")>>

Return(verdict) ==
    /\ u_pc' = "done"
    /\ u_ret' = verdict

UpgradeInputs ==
    /\ u_pc = "start"
    /\ dev_platform = "arm"
    /\ dev_version \in UpgradeVersions
    /\ image \in GenericImage
    /\ extra_images \in SeqsUpTo(GenericImage, MaxExtra)
    /\ dry_run \in BOOLEAN
    /\ current_version = <<>>
    /\ extra_idx = 0
    /\ upgrade_result = None
    /\ updated_version = <<>>
    /\ calls = <<>>
    /\ u_ret = "running"

UpgradeIdle ==
    /\ u_pc = "idle"
    /\ dev_platform = "arm"
    /\ dev_version = <<"1", ".", "0">>
    /\ image = [version |-> <<"1", ".", "0">>, platform |-> "arm"]
    /\ extra_images = <<>>
    /\ dry_run = FALSE
    /\ current_version = <<>>
    /\ extra_idx = 0
    /\ upgrade_result = None
    /\ updated_version = <<>>
    /\ calls = <<>>
    /\ u_ret = "running"

\* lines 19-39
CheckMainImage ==
    /\ u_pc = "start"
    /\ current_version' = dev_version
    /\ calls' = calls \o StartCalls(image, dev_platform)
    /\ LET verdict == CheckImage(image, dev_version, dev_platform) IN
       IF verdict = "continue"
       THEN /\ u_pc' = "extras"
            /\ extra_idx' = 1
            /\ u_ret' = u_ret
       ELSE /\ Return(verdict)
            /\ extra_idx' = extra_idx
    /\ UNCHANGED <<dev_version, dev_platform, image, extra_images, dry_run,
                   upgrade_result, updated_version>>
    /\ UNCHANGED <<w_vars, s_vars, c_vars, f_vars, m_vars>>

\* lines 41-62, one iteration
CheckNextExtraImage ==
    /\ u_pc = "extras"
    /\ extra_idx <= Len(extra_images)
    /\ calls' = calls \o ExtraCalls(extra_images[extra_idx], dev_platform)
    /\ LET verdict == CheckExtraImage(extra_images[extra_idx],
                                      current_version, dev_platform) IN
       IF verdict = "continue"
       THEN /\ extra_idx' = extra_idx + 1
            /\ UNCHANGED <<u_pc, u_ret>>
       ELSE /\ Return(verdict)
            /\ extra_idx' = extra_idx
    /\ UNCHANGED <<dev_version, dev_platform, image, extra_images, dry_run,
                   current_version, upgrade_result, updated_version>>
    /\ UNCHANGED <<w_vars, s_vars, c_vars, f_vars, m_vars>>

\* SaveConfig with the exception of model.save_config caught and ignored
SaveConfig_SwallowsError ==
    /\ u_pc = "extras"
    /\ extra_idx > Len(extra_images)
    /\ \E outcome \in {"returned", "raised"} :
          calls' = Append(calls, Call("save_config", outcome))
    /\ u_pc' = "upgrade"
    /\ UNCHANGED <<dev_version, dev_platform, image, extra_images, dry_run,
                   current_version, extra_idx, upgrade_result, updated_version,
                   u_ret>>
    /\ UNCHANGED <<w_vars, s_vars, c_vars, f_vars, m_vars>>

\* lines 64-69: model.save_config returns, or raises CommandError
SaveConfig ==
    /\ u_pc = "extras"
    /\ extra_idx > Len(extra_images)
    /\ \/ /\ calls' = Append(calls, Call("save_config", "returned"))
          /\ u_pc' = "upgrade"
          /\ u_ret' = u_ret
       \/ /\ calls' = Append(calls, Call("save_config", "raised"))
          /\ Return("CommandError")
    /\ UNCHANGED <<dev_version, dev_platform, image, extra_images, dry_run,
                   current_version, extra_idx, upgrade_result, updated_version>>
    /\ UNCHANGED <<w_vars, s_vars, c_vars, f_vars, m_vars>>

\* Upgrade without the test of line 73: a falsy result goes on to line 77
Upgrade_IgnoresResult ==
    /\ u_pc = "upgrade"
    /\ dev_version' \in (IF dry_run THEN {dev_version} ELSE UpgradeVersions)
    /\ \E outcome \in {"truthy", "falsy", "raised"} :
          /\ calls' = Append(calls, Call("upgrade", outcome))
          /\ upgrade_result' = outcome
          /\ IF outcome = "raised" THEN Return("CommandError")
             ELSE u_pc' = "post" /\ u_ret' = u_ret
    /\ UNCHANGED <<dev_platform, image, extra_images, dry_run,
                   current_version, extra_idx, updated_version>>
    /\ UNCHANGED <<w_vars, s_vars, c_vars, f_vars, m_vars>>

\* Upgrade calling model.upgrade a second time after a falsy result
Upgrade_RetriesOnce ==
    /\ u_pc = "upgrade"
    /\ dev_version' \in (IF dry_run THEN {dev_version} ELSE UpgradeVersions)
    /\ \E outcome \in {"truthy", "falsy", "raised"} :
          /\ calls' = Append(calls, Call("upgrade", outcome))
          /\ upgrade_result' = outcome
          /\ IF outcome = "raised" THEN Return("CommandError")
             ELSE IF outcome = "falsy" /\ upgrade_result = "falsy"
             THEN Return("False")
             ELSE IF outcome = "falsy" THEN UNCHANGED <<u_pc, u_ret>>
             ELSE u_pc' = "post" /\ u_ret' = u_ret
    /\ UNCHANGED <<dev_platform, image, extra_images, dry_run,
                   current_version, extra_idx, updated_version>>
    /\ UNCHANGED <<w_vars, s_vars, c_vars, f_vars, m_vars>>

\* lines 71-75: model.upgrade returns a truthy or a falsy result, or raises;
\* on a real run it leaves the device at any version, on a dry run the
\* models send nothing to the device
Upgrade ==
    /\ u_pc = "upgrade"
    /\ dev_version' \in (IF dry_run THEN {dev_version} ELSE UpgradeVersions)
    /\ \E outcome \in {"truthy", "falsy", "raised"} :
          /\ calls' = Append(calls, Call("upgrade", outcome))
          /\ upgrade_result' = outcome
          /\ IF outcome = "raised" THEN Return("CommandError")
             ELSE IF outcome = "falsy" THEN Return("False")
             ELSE u_pc' = "post" /\ u_ret' = u_ret
    /\ UNCHANGED <<dev_platform, image, extra_images, dry_run,
                   current_version, extra_idx, updated_version>>
    /\ UNCHANGED <<w_vars, s_vars, c_vars, f_vars, m_vars>>

\* lines 77-102
VerifyUpgrade ==
    /\ u_pc = "post"
    /\ calls' = calls \o PostCalls
    /\ updated_version' = dev_version
    /\ Return(PostCheck(dev_version, image, current_version, dry_run))
    /\ UNCHANGED <<dev_version, dev_platform, image, extra_images, dry_run,
                   current_version, extra_idx, upgrade_result>>
    /\ UNCHANGED <<w_vars, s_vars, c_vars, f_vars, m_vars>>

Next ==
    \/ CheckMainImage
    \/ CheckNextExtraImage
    \/ SaveConfig
    \/ Upgrade
    \/ VerifyUpgrade

\* netcommand.py, update: the inputs of generic_upgrade, before the call
UpdateInputs ==
    /\ u_pc = "update"
    /\ dev_platform = "arm"
    /\ dev_version \in UpgradeVersions
    /\ image \in GenericImage
    /\ extra_images \in SeqsUpTo(GenericImage, MaxExtra)
    /\ dry_run \in BOOLEAN
    /\ current_version = <<>>
    /\ extra_idx = 0
    /\ upgrade_result = None
    /\ updated_version = <<>>
    /\ calls = <<>>
    /\ u_ret = "running"

\* netcommand.py, lines 94-95: if not dry_run: model.save_config()
SavesFirst(dry) == ~dry

\* netcommand.py, update, lines 41-95: the result starts as FAILED, the
\* versions and the platform are read (lines 51-54), the images are looked
\* up, and on a real run model.save_config() is called before
\* generic_upgrade; its exception is caught at line 103
UpdateStart ==
    /\ u_pc = "update"
    /\ d_status' = "FAILED"
    /\ LET queries == <<Query("get_software_version"),
                        Query("get_firmware_version"), Query("get_platform")>>
       IN
       IF SavesFirst(dry_run)
       THEN \/ /\ calls' = queries \o <<Call("save_config", "returned")>>
               /\ u_pc' = "start"
               /\ u_ret' = u_ret
            \/ /\ calls' = queries \o <<Call("save_config", "raised")>>
               /\ u_pc' = "returned"
               /\ u_ret' = "CommandError"
       ELSE /\ calls' = queries
            /\ u_pc' = "start"
            /\ u_ret' = u_ret
    /\ UNCHANGED <<dev_version, dev_platform, image, extra_images, dry_run,
                   current_version, extra_idx, upgrade_result, updated_version>>
    /\ UNCHANGED <<m_proc, m_dry_run, m_pending, m_pc, m_i, m_log, m_ret>>
    /\ UNCHANGED <<w_vars, s_vars, c_vars, f_vars>>

\* netcommand.py, update, lines 96-105: a True result of generic_upgrade
\* makes the status SUCCESS and, on a real run, reads the versions again;
\* any other result, and an exception, leave it FAILED
UpdateFinish ==
    /\ u_pc = "done"
    /\ d_status = "FAILED"
    /\ u_pc' = "returned"
    /\ d_status' = (IF u_ret = "True" THEN "SUCCESS" ELSE d_status)
    /\ calls' = calls \o (IF u_ret = "True" /\ ~dry_run THEN PostCalls
                          ELSE <<>>)
    /\ UNCHANGED <<dev_version, dev_platform, image, extra_images, dry_run,
                   current_version, extra_idx, upgrade_result, updated_version,
                   u_ret>>
    /\ UNCHANGED <<m_proc, m_dry_run, m_pending, m_pc, m_i, m_log, m_ret>>
    /\ UNCHANGED <<w_vars, s_vars, c_vars, f_vars>>

NextUpdate ==
    \/ UpdateStart
    \/ CheckMainImage
    \/ CheckNextExtraImage
    \/ SaveConfig
    \/ Upgrade
    \/ VerifyUpgrade
    \/ UpdateFinish

-----------------------------------------------------------------------------
(* connection.py: wait_prompt_with_callback *)

\* Bytes on the wire: an ASCII byte is written as its character; "xC3" and
\* "xA9" are the two bytes of the UTF-8 encoding of the character "e'".
LeadByte == "xC3"
ContinuationByte == "xA9"
TwoByteChar == "e'"

\* bytes.decode("utf-8", errors="ignore") of one chunk: a lead byte with its
\* continuation byte is one character, any other non-ASCII byte is dropped
RECURSIVE decode(_)
decode(b) ==
    IF b = <<>> THEN <<>>
    ELSE IF Head(b) = LeadByte
         THEN IF Len(b) >= 2 /\ b[2] = ContinuationByte
              THEN <<TwoByteChar>> \o decode(SubSeq(b, 3, Len(b)))
              ELSE decode(Tail(b))
    ELSE IF Head(b) = ContinuationByte THEN decode(Tail(b))
    ELSE <<Head(b)>> \o decode(Tail(b))

\* str.rfind(c) for a one-character c: 0-based index, -1 when absent
RECURSIVE rfind(_, _)
rfind(s, c) ==
    IF s = <<>> THEN -1
    ELSE IF s[Len(s)] = c THEN Len(s) - 1
    ELSE rfind(SubSeq(s, 1, Len(s) - 1), c)

\* s[start:stop] with start >= 0; a negative stop counts from the end
Slice(s, start, stop) ==
    LET e == IF stop < 0 THEN Max(Len(s) + stop, 0)
             ELSE IF stop > Len(s) THEN Len(s) ELSE stop IN
    IF e <= start THEN <<>> ELSE SubSeq(s, start + 1, e)

\* str.splitlines() for the line boundaries "\n", "\r" and "\r\n"
RECURSIVE splitlines(_)
splitlines(s) ==
    LET n == find(s, "\n", 1)
        r == find(s, "\r", 1)
        i == IF n = 0 THEN r ELSE IF r = 0 THEN n ELSE IF r < n THEN r ELSE n
        skip == IF i # 0 /\ s[i] = "\r" /\ i < Len(s) /\ s[i + 1] = "\n"
                THEN 2 ELSE 1 IN
    IF s = <<>> THEN <<>>
    ELSE IF i = 0 THEN <<s>>
    ELSE <<SubSeq(s, 1, i - 1)>> \o splitlines(SubSeq(s, i + skip, Len(s)))

\* key in row, for strings
Contains(row, key) ==
    \E i \in 0..(Len(row) - Len(key)) : SubSeq(row, i + 1, i + Len(key)) = key

\* What a row callback returns: None, Actions.BREAK or a str
NoAction == [kind |-> "None"]
BREAK == [kind |-> "BREAK"]
Reply(text) == [kind |-> "str", text |-> text]

\* expect_handler returning the value of the last matching key
RECURSIVE expect_handler_LastMatch(_, _)
expect_handler_LastMatch(answers, row) ==
    IF answers = <<>> THEN NoAction
    ELSE IF Contains(row, answers[Len(answers)].key)
    THEN answers[Len(answers)].value
    ELSE expect_handler_LastMatch(SubSeq(answers, 1, Len(answers) - 1), row)

\* expect.py, expect_handler: the value of the first key of answers that is
\* a substring of row; answers is the dict, in insertion order
RECURSIVE expect_handler(_, _)
expect_handler(answers, row) ==
    IF answers = <<>> THEN NoAction
    ELSE IF Contains(row, Head(answers).key) THEN Head(answers).value
    ELSE expect_handler(Tail(answers), row)

\* the answer table of the modelled callback: "?" is answered, "!" stops
Answers ==
    << [key |-> <<"?">>, value |-> Reply(<<"y">>)],
       [key |-> <<"!">>, value |-> BREAK] >>

\* models/ios.py, login_dialog: the strings it looks for in a row
UsernamePrompt == <<"U", "s", "e", "r", "n", "a", "m", "e", ":">>
PasswordPrompt == <<"P", "a", "s", "s", "w", "o", "r", "d", ":">>
AuthFailedMarker ==
    <<"%", " ", "A", "u", "t", "h", "e", "n", "t", "i", "c", "a", "t", "i",
      "o", "n", " ", "f", "a", "i", "l", "e", "d">>

\* the credentials of the modelled session
Username == <<"u">>
Password == <<"p">>

\* login_dialog stopping at the password prompt instead of answering it
login_dialog_StopsAtPassword(username, password, row) ==
    IF endswith(row, UsernamePrompt) THEN Reply(username \o <<"\n">>)
    ELSE IF endswith(row, PasswordPrompt) THEN BREAK
    ELSE NoAction

\* models/ios.py lines 63-70, the callback login_dialog returns
login_dialog(username, password, row) ==
    IF endswith(row, UsernamePrompt) THEN Reply(username \o <<"\n">>)
    ELSE IF endswith(row, PasswordPrompt) THEN Reply(password \o <<"\n">>)
    ELSE IF startswith(row, AuthFailedMarker) THEN BREAK
    ELSE NoAction

ApplyCallback(cb, row) ==
    IF cb = "expect_strings" THEN expect_handler(Answers, row)
    ELSE IF cb = "login_dialog" THEN login_dialog(Username, Password, row)
    ELSE NoAction

\* CallbackLoop going on to the rows after the one that got Actions.BREAK
RECURSIVE CallbackLoop_ContinuesAfterBreak(_, _)
CallbackLoop_ContinuesAfterBreak(cb, rows) ==
    IF rows = <<>> THEN [sent |-> <<>>, break_out |-> FALSE, called |-> <<>>]
    ELSE LET action == ApplyCallback(cb, Head(rows))
             rest == CallbackLoop_ContinuesAfterBreak(cb, Tail(rows)) IN
         [sent |-> (IF action.kind = "str" THEN <<action.text>> ELSE <<>>)
                   \o rest.sent,
          break_out |-> action = BREAK \/ rest.break_out,
          called |-> <<Head(rows)>> \o rest.called]

\* CallbackLoop sending every reply with a line end put after it
RECURSIVE CallbackLoop_AppendsNewline(_, _)
CallbackLoop_AppendsNewline(cb, rows) ==
    IF rows = <<>> THEN [sent |-> <<>>, break_out |-> FALSE, called |-> <<>>]
    ELSE LET action == ApplyCallback(cb, Head(rows)) IN
         IF action = BREAK
         THEN [sent |-> <<>>, break_out |-> TRUE, called |-> <<Head(rows)>>]
         ELSE LET rest == CallbackLoop_AppendsNewline(cb, Tail(rows)) IN
              [sent |-> (IF action.kind = "str"
                         THEN <<action.text \o <<"\n">>>>
                         ELSE <<>>) \o rest.sent,
               break_out |-> rest.break_out,
               called |-> <<Head(rows)>> \o rest.called]

\* lines 104-112: the for loop over the rows; what it sends, whether it
\* left with break_out set, and the rows it called row_callback with
RECURSIVE CallbackLoop(_, _)
CallbackLoop(cb, rows) ==
    IF rows = <<>> THEN [sent |-> <<>>, break_out |-> FALSE, called |-> <<>>]
    ELSE LET action == ApplyCallback(cb, Head(rows)) IN
         IF action = BREAK
         THEN [sent |-> <<>>, break_out |-> TRUE, called |-> <<Head(rows)>>]
         ELSE LET rest == CallbackLoop(cb, Tail(rows)) IN
              [sent |-> (IF action.kind = "str" THEN <<action.text>>
                         ELSE <<>>) \o rest.sent,
               break_out |-> rest.break_out,
               called |-> <<Head(rows)>> \o rest.called]

\* EndsWithPrompt without the second test of line 100
EndsWithPrompt_NoTrailingSpace(d, p) == endswith(d, p)

\* line 100
EndsWithPrompt(d, p) == endswith(d, p) \/ endswith(d, p \o <<" ">>)

\* TimedOut raising as soon as the sleeps reach the timeout
TimedOut_AtLimit(slept, limit) == slept >= limit

\* line 95
TimedOut(slept, limit) == slept > limit

\* line 99
LongEnough(d, min_len) == Len(d) > min_len

\* line 117
StripPrompt(d, min_len) == Slice(d, min_len, rfind(d, "\n"))

WaitInputs(alphabet, callbacks) ==
    /\ w_pc = "loop"
    /\ stream \in SeqsUpTo(alphabet, MaxStream)
    /\ prompt = <<">">>
    /\ timeout \in 0..MaxTimeout
    /\ min_input_length \in 0..MaxMinLen
    /\ row_callback \in callbacks
    /\ data = <<>>
    /\ times_sleep = 0
    /\ at_prompt = FALSE
    /\ sent = <<>>
    /\ cb_rows = <<>>
    /\ w_text = <<>>
    /\ w_ret = "running"

WaitIdle ==
    /\ w_pc = "idle"
    /\ stream = <<>>
    /\ prompt = <<">">>
    /\ timeout = 0
    /\ min_input_length = 0
    /\ row_callback = None
    /\ data = <<>>
    /\ times_sleep = 0
    /\ at_prompt = FALSE
    /\ sent = <<>>
    /\ cb_rows = <<>>
    /\ w_text = <<>>
    /\ w_ret = "running"

\* lines 88-98, receive_function returned nothing: one more sleep, and
\* TimeoutError once the sleeps exceed the timeout
ReceiveNothing ==
    /\ w_pc = "loop"
    /\ times_sleep' = times_sleep + 1
    /\ IF TimedOut(times_sleep + 1, timeout)
       THEN w_pc' = "done" /\ w_ret' = "TimeoutError"
       ELSE UNCHANGED <<w_pc, w_ret>>
    /\ UNCHANGED <<stream, prompt, timeout, min_input_length, row_callback,
                   data, at_prompt, sent, cb_rows, w_text>>
    /\ UNCHANGED <<u_vars, s_vars, c_vars, f_vars, m_vars>>

\* lines 88-90 and 99-120, receive_function returned new_data and the device
\* is left with rest
Deliver(new_data, rest) ==
    LET buffer == data \o decode(new_data)
        reached == LongEnough(buffer, min_input_length)
                   /\ EndsWithPrompt(buffer, prompt)
        loop == IF LongEnough(buffer, min_input_length) /\ ~reached
                   /\ row_callback # None
                THEN CallbackLoop(row_callback, splitlines(strip(buffer)))
                ELSE [sent |-> <<>>, break_out |-> FALSE, called |-> <<>>] IN
    /\ stream' = rest
    /\ sent' = sent \o loop.sent
    /\ cb_rows' = loop.called
    /\ at_prompt' = reached
    /\ data' = buffer
    /\ IF reached
       THEN /\ w_text' = StripPrompt(buffer, min_input_length)
            /\ w_pc' = "done"
            /\ w_ret' = "returned"
       ELSE IF loop.break_out
       THEN /\ w_text' = buffer
            /\ w_pc' = "done"
            /\ w_ret' = "returned"
       ELSE UNCHANGED <<w_text, w_pc, w_ret>>
    /\ UNCHANGED <<prompt, timeout, min_input_length, row_callback,
                   times_sleep>>

\* receive_function returned the next n bytes of a device that sends a
\* finite stream
ReceiveData ==
    /\ w_pc = "loop"
    /\ \E n \in 1..Len(stream) :
        Deliver(SubSeq(stream, 1, n), SubSeq(stream, n + 1, Len(stream)))
    /\ UNCHANGED <<u_vars, s_vars, c_vars, f_vars, m_vars>>

\* receive_function returned the next n bytes of a device that keeps
\* sending: stream is what it repeats, and what it sent goes to the back
ReceiveFromEndlessDevice ==
    /\ w_pc = "loop"
    /\ Len(data) < MaxBuffer
    /\ \E n \in 1..Len(stream) :
        Deliver(SubSeq(stream, 1, n),
                SubSeq(stream, n + 1, Len(stream)) \o SubSeq(stream, 1, n))
    /\ UNCHANGED <<u_vars, s_vars, c_vars, f_vars, m_vars>>

NextWait ==
    \/ ReceiveNothing
    \/ ReceiveData

\* the loop of lines 86-114 facing a device that keeps sending
NextWaitEndless ==
    \/ ReceiveNothing
    \/ ReceiveFromEndlessDevice

-----------------------------------------------------------------------------
(* connection.py: TelnetConnection and SSHConnection *)

\* U+FFFD, what errors="replace" puts for a byte that does not decode
Replacement == "xFFFD"

\* bytes.decode("utf-8", errors="replace") of one chunk (line 253)
RECURSIVE decode_replace(_)
decode_replace(b) ==
    IF b = <<>> THEN <<>>
    ELSE IF Head(b) = LeadByte
         THEN IF Len(b) >= 2 /\ b[2] = ContinuationByte
              THEN <<TwoByteChar>> \o decode_replace(SubSeq(b, 3, Len(b)))
              ELSE <<Replacement>> \o decode_replace(Tail(b))
    ELSE IF Head(b) = ContinuationByte
         THEN <<Replacement>> \o decode_replace(Tail(b))
    ELSE <<Head(b)>> \o decode_replace(Tail(b))

\* bytes.decode("utf-8") of one chunk (line 452) raises UnicodeDecodeError
\* on the bytes errors="replace" replaces
DecodeRaises(b) == \E i \in DOMAIN decode_replace(b) :
                       decode_replace(b)[i] = Replacement

\* the command run_interactive is called with, and end_of_line (lines 139
\* and 468)
Command == <<"x">>
EndOfLine == <<"\r", "\n">>

\* what a device sends after the command: its echo, a line and the prompt
Response == Command \o EndOfLine \o <<"o", "k">> \o EndOfLine \o <<">">>

\* what a device sends after the command when it stops at a line that the
\* callback of expect_strings answers with Actions.BREAK
BreakResponse == Command \o EndOfLine \o <<"!">> \o EndOfLine

\* login transcripts: the two prompts and the shell prompt; the same with
\* spaces, the echo of the username and line ends; a refused login
LoginOK == UsernamePrompt \o PasswordPrompt \o <<">">>
LoginEcho ==
    UsernamePrompt \o <<" ">> \o Username \o EndOfLine
    \o PasswordPrompt \o <<" ">> \o EndOfLine \o <<">">>
LoginDenied ==
    UsernamePrompt \o PasswordPrompt \o EndOfLine
    \o AuthFailedMarker \o EndOfLine \o <<">">>

\* what a Telnet device sends in a session
TelnetScripts ==
    { LoginOK, LoginEcho, LoginDenied, UsernamePrompt,
      LoginOK \o Response,
      LoginOK \o <<">">> \o Response,
      LoginOK \o BreakResponse \o <<">">> \o Response }

\* what the shell of an SSH device sends in a session
SSHScripts ==
    { <<">">> \o Response,
      <<">">> \o BreakResponse \o <<">">> \o Response,
      <<LeadByte, ContinuationByte, ">">> \o Response }

\* connect(), line 179: timeout=30
LoginTimeout == 30

\* connect(), line 181: min_input_length=1
LoginMinInputLength == 1

\* the default timeout=5 of run_interactive (lines 193 and 466) and of
\* cli_run_interactive (line 62), which SSH run_interactive calls without
\* a timeout (lines 477-483)
DefaultTimeout == 5

\* the row_callback arguments run_interactive is called with
RunCallbacks == {None, "expect_strings"}

\* the timeout arguments run_interactive is called with: its default
RunTimeouts == {DefaultTimeout}

\* timeout arguments above the default: the response may pause for longer
\* than DefaultTimeout seconds
LongTimeouts == {DefaultTimeout + 2}

\* __init__ (lines 128-140 and 278-298): a TelnetConnection has no socket,
\* an SSHConnection has connected but has no shell channel
SessionInputs ==
    /\ \/ /\ s_kind = "telnet"
          /\ script \in TelnetScripts
          /\ s_login_dialog \in {None, "login_dialog"}
          /\ connects = 0
       \/ /\ s_kind = "ssh"
          /\ script \in SSHScripts
          /\ s_login_dialog = None
          /\ connects = 1
    /\ s_channel = None
    /\ s_at_prompt = FALSE
    /\ s_pc = "idle"
    /\ s_op = "none"
    /\ s_lazy = FALSE
    /\ s_timeout = 0
    /\ s_row_callback = None
    /\ wp_data = <<>>
    /\ wire = <<>>
    /\ s_ret = "none"
    /\ logins = 0
    /\ runs = 0
    /\ w_pc = "idle"
    /\ stream = script
    /\ prompt = <<">">>
    /\ timeout = 0
    /\ min_input_length = 0
    /\ row_callback = None
    /\ data = <<>>
    /\ times_sleep = 0
    /\ at_prompt = FALSE
    /\ sent = <<>>
    /\ cb_rows = <<>>
    /\ w_text = <<>>
    /\ w_ret = "running"

SessionIdle ==
    /\ s_kind = "none"
    /\ script = <<>>
    /\ s_login_dialog = None
    /\ s_channel = None
    /\ s_at_prompt = FALSE
    /\ s_pc = "off"
    /\ s_op = "none"
    /\ s_lazy = FALSE
    /\ s_timeout = 0
    /\ s_row_callback = None
    /\ wp_data = <<>>
    /\ wire = <<>>
    /\ s_ret = "none"
    /\ connects = 0
    /\ logins = 0
    /\ runs = 0

\* lines 83-85: wait_prompt_with_callback starts, called with these
\* arguments, after send_function was called with first_sent
StartWait(t, min_len, cb, first_sent) ==
    /\ w_pc' = "loop"
    /\ timeout' = t
    /\ min_input_length' = min_len
    /\ row_callback' = cb
    /\ data' = <<>>
    /\ times_sleep' = 0
    /\ at_prompt' = FALSE
    /\ sent' = first_sent
    /\ cb_rows' = <<>>
    /\ w_text' = <<>>
    /\ w_ret' = "running"
    /\ UNCHANGED prompt

\* line 120: wait_prompt_with_callback has returned or raised; what it
\* returned and how it ended stay, its other locals are gone
EndWait ==
    /\ w_pc' = "idle"
    /\ times_sleep' = 0
    /\ sent' = <<>>
    /\ cb_rows' = <<>>
    /\ UNCHANGED <<stream, prompt, timeout, min_input_length, row_callback,
                   data, at_prompt, w_text, w_ret>>

\* the engine is left as it is
NoWait ==
    UNCHANGED <<w_pc, prompt, timeout, min_input_length, row_callback, data,
                times_sleep, at_prompt, sent, cb_rows, w_text, w_ret>>

\* TelnetConnection.connect, lines 148-182, up to the wait of the login
\* dialog: resolving or connecting fails, or no login dialog was given, or
\* the dialog starts
TelnetConnect(lazy) ==
    /\ s_lazy' = lazy
    /\ \E connected \in BOOLEAN :
        IF ~connected
        THEN /\ s_channel' = None
             /\ s_ret' = "ConnectionError"
             /\ s_pc' = "idle"
             /\ UNCHANGED <<connects, logins>>
             /\ NoWait
        ELSE IF s_login_dialog = None
        THEN /\ s_channel' = "socket"
             /\ connects' = connects + 1
             /\ s_ret' = "NoLoginDialog"
             /\ s_pc' = "idle"
             /\ UNCHANGED logins
             /\ NoWait
        ELSE /\ s_channel' = "socket"
             /\ connects' = connects + 1
             /\ logins' = logins + 1
             /\ s_ret' = "running"
             /\ s_pc' = "login"
             /\ StartWait(LoginTimeout, LoginMinInputLength, s_login_dialog,
                          <<>>)

\* connect() called on a session that has no socket (models/ios.py line 44)
Connect ==
    /\ s_kind = "telnet"
    /\ s_pc = "idle"
    /\ s_channel = None
    /\ s_op' = "connect"
    /\ TelnetConnect(FALSE)
    /\ UNCHANGED <<s_kind, script, s_login_dialog, s_at_prompt, s_timeout,
                   s_row_callback, wp_data, wire, runs, stream>>
    /\ UNCHANGED <<u_vars, c_vars, f_vars, m_vars>>

\* LoginResult raising nothing when the dialog did not end at the prompt
LoginResult_IgnoresFlag(reached) == "returned"

\* lines 184-186: what connect() does with the flag the dialog returned
LoginResult(reached) == IF reached THEN "returned" ELSE "LoginFailed"

\* lines 175-186: the wait of the login dialog is over; connect() returns or
\* raises, and a connect() called by the channel property returns into
\* _wait_prompt, line 248
LoginReturns ==
    /\ s_pc = "login"
    /\ w_pc = "done"
    /\ IF w_ret # "returned"
       THEN /\ s_ret' = w_ret
            /\ s_pc' = "idle"
            /\ UNCHANGED s_at_prompt
       ELSE /\ s_at_prompt' = at_prompt
            /\ IF LoginResult(at_prompt) = "returned" /\ s_lazy
               THEN s_pc' = "wait_prompt" /\ UNCHANGED s_ret
               ELSE s_pc' = "idle" /\ s_ret' = LoginResult(at_prompt)
    /\ UNCHANGED <<s_kind, script, s_login_dialog, s_channel, s_op, s_lazy,
                   s_timeout, s_row_callback, wp_data, wire, connects, logins,
                   runs>>
    /\ EndWait
    /\ UNCHANGED <<u_vars, c_vars, f_vars, m_vars>>

\* cli_run_interactive, lines 62-71, as run_interactive calls it (lines
\* 199-209 and 475-483): the command is written and the wait starts
SendCommand(t, cb, flag, entry, read) ==
    LET binary_command == Command \o EndOfLine IN
    /\ wire' = Append(wire, [bytes |-> binary_command, at_prompt |-> flag,
                             entry |-> entry, read |-> read])
    /\ StartWait(IF s_kind = "telnet" THEN t ELSE DefaultTimeout,
                 Len(binary_command) + 1, cb, <<binary_command>>)
    /\ s_pc' = "engine"

\* NeedsWait sending without a look at the flag
NeedsWait_Never(flag) == FALSE

\* lines 241 and 443: _wait_prompt returns at once when the flag is set
NeedsWait(flag) == ~flag

\* run_interactive, lines 193-201 and 466-474, up to its first wait: with
\* the flag set the command is sent; else _wait_prompt starts reading, a
\* Telnet session without socket connecting first (lines 142-146)
RunInteractiveWith(timeouts) ==
    /\ s_pc = "idle"
    /\ runs < MaxRuns
    /\ runs' = runs + 1
    /\ s_op' = "run_interactive"
    /\ \E t \in timeouts, cb \in RunCallbacks,
          dry \in (IF s_kind = "ssh" THEN BOOLEAN ELSE {FALSE}) :
        /\ s_timeout' = t
        /\ s_row_callback' = cb
        /\ IF dry
           THEN /\ s_ret' = "returned"
                /\ NoWait
                /\ UNCHANGED <<s_channel, s_pc, s_lazy, wp_data, wire,
                               connects, logins>>
           ELSE IF ~NeedsWait(s_at_prompt)
           THEN /\ s_ret' = "running"
                /\ s_channel' = (IF s_channel = None THEN "shell"
                                 ELSE s_channel)
                /\ SendCommand(t, cb, s_at_prompt, s_at_prompt, <<>>)
                /\ UNCHANGED <<s_lazy, wp_data, connects, logins>>
           ELSE IF s_kind = "telnet" /\ s_channel = None
           THEN /\ wp_data' = <<>>
                /\ TelnetConnect(TRUE)
                /\ UNCHANGED wire
           ELSE /\ wp_data' = <<>>
                /\ s_ret' = "running"
                /\ s_channel' = (IF s_channel = None THEN "shell"
                                 ELSE s_channel)
                /\ s_pc' = "wait_prompt"
                /\ NoWait
                /\ UNCHANGED <<s_lazy, wire, connects, logins>>
    /\ UNCHANGED <<s_kind, script, s_login_dialog, s_at_prompt, stream>>
    /\ UNCHANGED <<u_vars, c_vars, f_vars, m_vars>>

\* run_interactive called with its default timeout
RunInteractive == RunInteractiveWith(RunTimeouts)

\* run_interactive called with a timeout above its default, as
\* models/delln.py does for copy (timeout=300, line 131) and for reload
\* (timeout=30, line 158)
RunInteractiveLong == RunInteractiveWith(LongTimeouts)

\* _wait_prompt, lines 248-258 and 450-457: recv returned up to len(prompt)
\* bytes; once what was read ends with the prompt the flag is set and
\* run_interactive sends the command.  (An empty read, lines 250-252,
\* changes nothing and the loop reads again.)
WaitPromptReceive ==
    /\ s_pc = "wait_prompt"
    /\ \E n \in 1..(IF Len(prompt) < Len(stream) THEN Len(prompt)
                    ELSE Len(stream)) :
        LET char == SubSeq(stream, 1, n)
            read == wp_data \o decode_replace(char) IN
        /\ stream' = SubSeq(stream, n + 1, Len(stream))
        /\ IF s_kind = "ssh" /\ DecodeRaises(char)
           THEN /\ s_ret' = "UnicodeDecodeError"
                /\ s_pc' = "idle"
                /\ NoWait
                /\ UNCHANGED <<s_at_prompt, wp_data, wire>>
           ELSE IF EndsWithPrompt(read, prompt)
           THEN /\ wp_data' = read
                /\ s_at_prompt' = TRUE
                /\ SendCommand(s_timeout, s_row_callback, s_at_prompt',
                               s_at_prompt, read)
                /\ UNCHANGED s_ret
           ELSE /\ wp_data' = read
                /\ NoWait
                /\ UNCHANGED <<s_at_prompt, s_pc, wire, s_ret>>
    /\ UNCHANGED <<s_kind, script, s_login_dialog, s_channel, s_op, s_lazy,
                   s_timeout, s_row_callback, connects, logins, runs>>
    /\ UNCHANGED <<u_vars, c_vars, f_vars, m_vars>>

\* _wait_prompt, lines 249 and 451: the device stays silent and recv, under
\* the timeout of lines 247 and 449, raises socket.timeout
WaitPromptTimesOut ==
    /\ s_pc = "wait_prompt"
    /\ s_ret' = "socket.timeout"
    /\ s_pc' = "idle"
    /\ UNCHANGED <<s_kind, script, s_login_dialog, s_channel, s_at_prompt,
                   s_op, s_lazy, s_timeout, s_row_callback, wp_data, wire,
                   connects, logins, runs>>
    /\ UNCHANGED <<u_vars, w_vars, c_vars, f_vars, m_vars>>

\* the receive functions returning nothing: SSH _receive (lines 427-437)
\* when nothing is ready, Telnet _receive (line 235) once the device has
\* closed the connection
SessionReceiveNothing ==
    /\ s_kind = "telnet" => stream = <<>>
    /\ ReceiveNothing

\* Telnet _receive, line 235: the device stays silent and recv, under the
\* timeout of lines 173 and 201, raises socket.timeout, which
\* wait_prompt_with_callback lets through (line 88)
ReceiveRaises ==
    /\ s_kind = "telnet"
    /\ w_pc = "loop"
    /\ w_pc' = "done"
    /\ w_ret' = "socket.timeout"
    /\ UNCHANGED <<stream, prompt, timeout, min_input_length, row_callback,
                   data, times_sleep, at_prompt, sent, cb_rows, w_text>>
    /\ UNCHANGED <<u_vars, s_vars, c_vars, f_vars, m_vars>>

\* run_interactive, lines 202-211 and 477-486: the wait is over; the flag
\* is assigned when the wait returned, not when it raised
RunInteractiveReturns ==
    /\ s_pc = "engine"
    /\ w_pc = "done"
    /\ s_pc' = "idle"
    /\ IF w_ret = "returned"
       THEN s_at_prompt' = at_prompt /\ s_ret' = "returned"
       ELSE s_ret' = w_ret /\ UNCHANGED s_at_prompt
    /\ UNCHANGED <<s_kind, script, s_login_dialog, s_channel, s_op, s_lazy,
                   s_timeout, s_row_callback, wp_data, wire, connects, logins,
                   runs>>
    /\ EndWait
    /\ UNCHANGED <<u_vars, c_vars, f_vars, m_vars>>

NextSession ==
    \/ Connect
    \/ LoginReturns
    \/ RunInteractive
    \/ WaitPromptReceive
    \/ WaitPromptTimesOut
    \/ SessionReceiveNothing
    \/ ReceiveData
    \/ ReceiveRaises
    \/ RunInteractiveReturns

\* a session whose commands are run with a timeout above the default
NextRunTimeout ==
    \/ Connect
    \/ LoginReturns
    \/ RunInteractiveLong
    \/ WaitPromptReceive
    \/ WaitPromptTimesOut
    \/ SessionReceiveNothing
    \/ ReceiveData
    \/ ReceiveRaises
    \/ RunInteractiveReturns

-----------------------------------------------------------------------------
(* connection.py: reopen and expect_disconnect *)

GracePeriod == 5         \* time.sleep(5) of expect_disconnect
RoundSeconds == 10       \* rounds = timeout // 10
ProbeTimeout == 5        \* sock.settimeout(5) of check_connection
PollSleep == 5           \* time.sleep(5) of wait_connection
HandshakeTimeout == 30   \* connection.connect(self.address, timeout=30, ...)

\* c_up_at of a device that stays down
Never == 0 - 1

\* check_connection, lines 529-547: the TCP connect succeeds
Reachable(clock) == c_up_at # Never /\ clock >= c_up_at

\* the timeout arguments of reopen: every multiple of five seconds that
\* gives up to MaxRounds rounds
ReopenTimeouts == {5 * k : k \in 0..(2 * MaxRounds + 1)}

\* how establishing an SSH connection fails at connection.connect (line
\* 363), and, with a jump host, before it: the connect of the jump-host
\* session times out (lines 344-353), the tunnel is refused (lines 354-356)
TargetFailures ==
    {"resolution", "refused", "timed out", "handshake", "authentication"}
JumpHostFailures == {"jump host timed out", "tunnel"}

\* the methods of class TelnetConnection, lines 123-262, and the one it
\* takes unchanged from its base class Connection (line 54)
TelnetConnectionMethods ==
    { "__init__", "channel", "connect", "run", "run_interactive",
      "upload_file", "close", "reopen", "expect_disconnect", "_send",
      "_receive", "_wait_prompt", "set_timeout", "get_address" }

\* self.<name>() on an object of a class with these methods
Invoke(methods, name) ==
    IF name \in methods THEN "called" ELSE "AttributeError"

ReconnectInputs ==
    /\ c_kind \in {"ssh", "telnet"}
    /\ c_jump_host \in (IF c_kind = "ssh" THEN BOOLEAN ELSE {FALSE})
    /\ c_pc = (IF c_kind = "ssh" THEN "new" ELSE "idle")
    /\ c_op = "none"
    /\ c_timeout = 0
    /\ c_i = 0
    /\ c_clock = 0
    /\ c_up_at \in {5 * k : k \in 0..(2 * MaxRounds)} \cup {Never}
    /\ c_refuses \in BOOLEAN
    /\ c_failure \in {"none"} \cup TargetFailures
                    \cup (IF c_jump_host THEN JumpHostFailures ELSE {})
    /\ c_connection = None
    /\ c_channel = None
    /\ c_generation = 0
    /\ j_sessions = 0
    /\ j_connection = None
    /\ c_events = <<>>
    /\ c_ret = "none"
    /\ c_at_prompt = FALSE
    /\ c_prompt = "initial"
    /\ c_channel_on = 0
    /\ j_open = 0

ReconnectIdle ==
    /\ c_kind = "none"
    /\ c_jump_host = FALSE
    /\ c_pc = "off"
    /\ c_op = "none"
    /\ c_timeout = 0
    /\ c_i = 0
    /\ c_clock = 0
    /\ c_up_at = 0
    /\ c_refuses = FALSE
    /\ c_failure = "none"
    /\ c_connection = None
    /\ c_channel = None
    /\ c_generation = 0
    /\ j_sessions = 0
    /\ j_connection = None
    /\ c_events = <<>>
    /\ c_ret = "none"
    /\ c_at_prompt = FALSE
    /\ c_prompt = "initial"
    /\ c_channel_on = 0
    /\ j_open = 0

\* how an attempt to establish a connection can end: a device whose
\* c_failure is "none" accepts every attempt, another one fails some
ConnectOutcomes == IF c_failure = "none" THEN {"none"} ELSE {"none", c_failure}

\* _connect, lines 358-360 and 364-366: what it raises on a failure; only
\* socket.timeout and the ConnectionError of the jump-host session are
\* turned into ConnectionError
Surfaces(failure) ==
    IF failure \in {"timed out", "jump host timed out"}
    THEN "ConnectionError" ELSE failure

\* NeedsJumpHostSession making a new session on every connect
NeedsJumpHostSession_Always(existing) == TRUE

\* line 343: if not self._jump_host_connection
NeedsJumpHostSession(existing) == existing = 0

\* _connect, lines 341-363, ending as outcome says: with a jump host, its
\* session is made if there is none and connected, and the tunnel is
\* opened; then the handshake with the target.  The constructor of the
\* jump-host session connects (line 298) and line 353 connects again: each
\* connect() opens a connection and puts it in the place of the one the
\* session held (line 371), which nothing closes
SSHConnect(outcome) ==
    LET jump == c_jump_host
        jump_ok == jump /\ outcome # "jump host timed out" IN
    /\ j_sessions' = (IF jump_ok /\ NeedsJumpHostSession(j_sessions)
                      THEN j_sessions + 1 ELSE j_sessions)
    /\ j_connection' = (IF jump_ok THEN "open" ELSE j_connection)
    /\ j_open' = (IF ~jump_ok THEN j_open
                  ELSE IF NeedsJumpHostSession(j_sessions) THEN j_open + 2
                  ELSE j_open + 1)
    /\ c_events' = c_events
                   \o (IF jump THEN <<"jump_host_handshake">> ELSE <<>>)
                   \o (IF outcome \in JumpHostFailures THEN <<>>
                       ELSE <<"handshake">>)

\* __init__, line 298: self.connect(); when it raises there is no session
SSHInit ==
    /\ c_kind = "ssh"
    /\ c_pc = "new"
    /\ c_op' = "__init__"
    /\ \E outcome \in ConnectOutcomes :
        /\ SSHConnect(outcome)
        /\ IF outcome = "none"
           THEN /\ c_connection' = "open"
                /\ c_generation' = c_generation + 1
                /\ c_pc' = "idle"
                /\ c_ret' = "returned"
           ELSE /\ c_pc' = "failed"
                /\ c_ret' = Surfaces(outcome)
                /\ UNCHANGED <<c_connection, c_generation>>
    /\ UNCHANGED <<c_kind, c_jump_host, c_timeout, c_i, c_clock, c_up_at,
                   c_refuses, c_failure, c_channel>>
    /\ UNCHANGED <<c_at_prompt, c_prompt, c_channel_on>>
    /\ UNCHANGED <<u_vars, w_vars, s_vars, f_vars, m_vars>>

\* the channel property, lines 418-422, on first use
InvokeShell ==
    /\ c_kind = "ssh"
    /\ c_pc = "idle"
    /\ c_connection = "open"
    /\ c_channel = None
    /\ c_channel' = "open"
    /\ c_channel_on' = c_generation
    /\ UNCHANGED <<c_at_prompt, c_prompt, j_open>>
    /\ UNCHANGED <<c_kind, c_jump_host, c_pc, c_op, c_timeout, c_i, c_clock,
                   c_up_at, c_refuses, c_failure, c_connection, c_generation,
                   j_sessions, j_connection, c_events, c_ret>>
    /\ UNCHANGED <<u_vars, w_vars, s_vars, f_vars, m_vars>>

\* CloseChannel leaving the flag as it is
CloseChannel_KeepsFlag ==
    /\ c_channel' = None
    /\ c_prompt' = (IF c_channel # None THEN "initial" ELSE c_prompt)
    /\ UNCHANGED c_at_prompt

\* close_channel, lines 488-493: a cached channel is closed and dropped and
\* the prompt reset; the flag is cleared in any case
CloseChannel ==
    /\ c_channel' = None
    /\ c_prompt' = (IF c_channel # None THEN "initial" ELSE c_prompt)
    /\ c_at_prompt' = FALSE

\* run_interactive, lines 466-486, by what it does to the session and as
\* outcome says: the channel property opens a shell channel on the connection
\* if none is cached (lines 418-422); _wait_prompt reads up to the prompt
\* unless the flag is set (lines 443-457) and sets the flag, or its recv
\* times out; the command is sent and the flag is assigned when the wait
\* returns (line 477), not when it raises.  With elevate, the call is the
\* one of elevate() of the models (models/ios.py lines 104-106):
\* _wait_prompt(), then set_prompt("#"), then run_interactive("enable")
ShellCommand ==
    /\ c_kind = "ssh"
    /\ c_pc = "idle"
    /\ c_connection = "open"
    /\ c_op' = "run_interactive"
    /\ c_channel' = "open"
    /\ c_channel_on' = (IF c_channel = None THEN c_generation
                        ELSE c_channel_on)
    /\ \E elevate \in BOOLEAN,
          outcome \in {"at prompt", "not at prompt", "TimeoutError"}
                      \cup (IF NeedsWait(c_at_prompt) THEN {"socket.timeout"}
                            ELSE {}) :
        /\ c_events' = (IF c_channel = None THEN <<"invoke_shell">>
                        ELSE <<>>)
                       \o (IF NeedsWait(c_at_prompt) THEN <<"wait_prompt">>
                           ELSE <<>>)
                       \o (IF outcome = "socket.timeout" THEN <<>>
                           ELSE <<"send">>)
        /\ c_prompt' = (IF elevate /\ outcome # "socket.timeout" THEN "set"
                        ELSE c_prompt)
        /\ c_at_prompt' = (CASE outcome = "at prompt" -> TRUE
                             [] outcome = "not at prompt" -> FALSE
                             [] outcome = "TimeoutError" -> TRUE
                             [] outcome = "socket.timeout" -> FALSE)
        /\ c_ret' = (IF outcome \in {"at prompt", "not at prompt"}
                     THEN "returned" ELSE outcome)
    /\ UNCHANGED <<c_kind, c_jump_host, c_pc, c_timeout, c_i, c_clock,
                   c_up_at, c_refuses, c_failure, c_connection, c_generation,
                   j_sessions, j_connection, j_open>>
    /\ UNCHANGED <<u_vars, w_vars, s_vars, f_vars, m_vars>>

\* close(), lines 389-392 (_connection is never None here: __init__
\* assigned it or raised)
CloseConnection ==
    /\ c_connection' = "closed"
    /\ j_connection' = (IF j_sessions > 0 THEN "closed" ELSE j_connection)
    /\ j_open' = (IF j_connection = "open" THEN j_open - 1 ELSE j_open)

\* close() called on its own
Close ==
    /\ c_kind = "ssh"
    /\ c_pc = "idle"
    /\ c_op' = "close"
    /\ CloseConnection
    /\ c_events' = <<"close">>
    /\ c_ret' = "returned"
    /\ UNCHANGED <<c_kind, c_jump_host, c_pc, c_timeout, c_i, c_clock,
                   c_up_at, c_refuses, c_failure, c_channel, c_generation,
                   j_sessions>>
    /\ UNCHANGED <<c_at_prompt, c_prompt, c_channel_on>>
    /\ UNCHANGED <<u_vars, w_vars, s_vars, f_vars, m_vars>>

\* expect_disconnect, lines 407-408: close_channel() and close()
ExpectDisconnect ==
    /\ c_kind = "ssh"
    /\ c_pc = "idle"
    /\ c_generation <= MaxReopens
    /\ j_open <= MaxJumpHost
    /\ c_op' = "expect_disconnect"
    /\ c_timeout' \in ReopenTimeouts
    /\ CloseChannel
    /\ UNCHANGED c_channel_on
    /\ CloseConnection
    /\ c_events' = <<"close_channel", "close">>
    /\ c_pc' = "grace"
    /\ c_clock' = 0 - GracePeriod
    /\ c_ret' = "running"
    /\ UNCHANGED <<c_kind, c_jump_host, c_i, c_up_at, c_refuses, c_failure,
                   c_generation, j_sessions>>
    /\ UNCHANGED <<u_vars, w_vars, s_vars, f_vars, m_vars>>

\* expect_disconnect, lines 409-410 and 227-228: time.sleep(5), then
\* reopen, which takes time_start (line 395) and begins the rounds of
\* wait_connection (line 554); TelnetConnection.reopen closes the socket
\* and calls self._connect().  The clock shows the seconds since
\* time_start, so the close happened at minus GracePeriod.
SleepGracePeriod ==
    /\ c_pc = "grace"
    /\ c_events' = Append(c_events, "sleep")
    /\ c_clock' = c_clock + GracePeriod
    /\ IF c_kind = "ssh"
       THEN /\ c_i' = 0
            /\ c_pc' = "poll"
            /\ UNCHANGED c_ret
       ELSE /\ c_pc' = "idle"
            /\ c_ret' = Invoke(TelnetConnectionMethods, "_connect")
            /\ UNCHANGED c_i
    /\ UNCHANGED <<c_kind, c_jump_host, c_op, c_timeout, c_up_at, c_refuses,
                   c_failure, c_connection, c_channel, c_generation,
                   j_sessions, j_connection>>
    /\ UNCHANGED <<c_at_prompt, c_prompt, c_channel_on, j_open>>
    /\ UNCHANGED <<u_vars, w_vars, s_vars, f_vars, m_vars>>

\* reopen(timeout) called on its own: time_start is taken (line 395) and
\* the rounds of wait_connection begin (line 554)
Reopen ==
    /\ c_kind = "ssh"
    /\ c_pc = "idle"
    /\ c_generation <= MaxReopens
    /\ j_open <= MaxJumpHost
    /\ c_op' = "reopen"
    /\ c_timeout' \in ReopenTimeouts
    /\ c_clock' = 0
    /\ c_i' = 0
    /\ c_pc' = "poll"
    /\ c_events' = <<>>
    /\ c_ret' = "running"
    /\ UNCHANGED <<c_kind, c_jump_host, c_up_at, c_refuses, c_failure,
                   c_connection, c_channel, c_generation, j_sessions,
                   j_connection>>
    /\ UNCHANGED <<c_at_prompt, c_prompt, c_channel_on, j_open>>
    /\ UNCHANGED <<u_vars, w_vars, s_vars, f_vars, m_vars>>

\* Reconnects entering the handshake loop whatever wait_connection returned
Reconnects_Always(found) == TRUE

\* reopen, line 396: if wait_connection(...)
Reconnects(found) == found

\* wait_connection, lines 555-562, one round: check_connection returns
\* True, or it fails (at once when the port refuses, else after its
\* timeout) and the round sleeps
WaitConnectionRound ==
    /\ c_pc = "poll"
    /\ c_i < c_timeout \div RoundSeconds
    /\ IF Reachable(c_clock)
       THEN /\ c_events' = Append(c_events, "probe_ok")
            /\ c_pc' = (IF Reconnects(TRUE) THEN "loop" ELSE "raise")
            /\ UNCHANGED <<c_i, c_clock>>
       ELSE /\ c_events' = Append(c_events, "probe_failed")
            /\ c_i' = c_i + 1
            /\ c_clock' = c_clock + PollSleep
                          + (IF c_refuses THEN 0 ELSE ProbeTimeout)
            /\ UNCHANGED c_pc
    /\ UNCHANGED <<c_kind, c_jump_host, c_op, c_timeout, c_up_at, c_refuses,
                   c_failure, c_connection, c_channel, c_generation,
                   j_sessions, j_connection, c_ret>>
    /\ UNCHANGED <<c_at_prompt, c_prompt, c_channel_on, j_open>>
    /\ UNCHANGED <<u_vars, w_vars, s_vars, f_vars, m_vars>>

\* wait_connection, line 563: the rounds are used up, it returns False
WaitConnectionGivesUp ==
    /\ c_pc = "poll"
    /\ c_i >= c_timeout \div RoundSeconds
    /\ c_pc' = (IF Reconnects(FALSE) THEN "loop" ELSE "raise")
    /\ UNCHANGED <<c_kind, c_jump_host, c_op, c_timeout, c_i, c_clock,
                   c_up_at, c_refuses, c_failure, c_connection, c_channel,
                   c_generation, j_sessions, j_connection, c_events, c_ret>>
    /\ UNCHANGED <<c_at_prompt, c_prompt, c_channel_on, j_open>>
    /\ UNCHANGED <<u_vars, w_vars, s_vars, f_vars, m_vars>>

\* reopen, lines 398-403: one turn of the while loop; a ConnectionError of
\* _connect is caught (the attempt that timed out has taken its timeout),
\* any other exception leaves reopen
ReopenConnect ==
    /\ c_pc = "loop"
    /\ c_clock < c_timeout
    /\ \E outcome \in ConnectOutcomes :
        /\ SSHConnect(outcome)
        /\ IF outcome = "none"
           THEN /\ c_connection' = "open"
                /\ c_generation' = c_generation + 1
                /\ c_pc' = "idle"
                /\ c_ret' = "returned"
                /\ UNCHANGED c_clock
           ELSE IF Surfaces(outcome) = "ConnectionError"
           THEN /\ c_clock' = c_clock + HandshakeTimeout
                /\ UNCHANGED <<c_connection, c_generation, c_pc, c_ret>>
           ELSE /\ c_pc' = "idle"
                /\ c_ret' = Surfaces(outcome)
                /\ UNCHANGED <<c_connection, c_generation, c_clock>>
    /\ UNCHANGED <<c_kind, c_jump_host, c_op, c_timeout, c_i, c_up_at,
                   c_refuses, c_failure, c_channel>>
    /\ UNCHANGED <<c_at_prompt, c_prompt, c_channel_on>>
    /\ UNCHANGED <<u_vars, w_vars, s_vars, f_vars, m_vars>>

\* reopen, line 404: raise ConnectionError, after wait_connection returned
\* False or after the while loop ran out of time
ReopenRaises ==
    /\ \/ c_pc = "raise"
       \/ c_pc = "loop" /\ c_clock >= c_timeout
    /\ c_pc' = "idle"
    /\ c_ret' = "ConnectionError"
    /\ UNCHANGED <<c_kind, c_jump_host, c_op, c_timeout, c_i, c_clock,
                   c_up_at, c_refuses, c_failure, c_connection, c_channel,
                   c_generation, j_sessions, j_connection, c_events>>
    /\ UNCHANGED <<c_at_prompt, c_prompt, c_channel_on, j_open>>
    /\ UNCHANGED <<u_vars, w_vars, s_vars, f_vars, m_vars>>

\* TelnetConnection.connect(), lines 148-188, by its outcome: the socket is
\* connected and the login done, or the connect fails and _channel is None
TelnetOpen ==
    /\ c_kind = "telnet"
    /\ c_pc = "idle"
    /\ c_generation <= MaxReopens
    /\ c_op' = "connect"
    /\ c_events' = <<>>
    /\ IF Reachable(0)
       THEN /\ c_connection' = "open"
            /\ c_generation' = c_generation + 1
            /\ c_ret' = "returned"
       ELSE /\ c_connection' = None
            /\ c_ret' = "ConnectionError"
            /\ UNCHANGED c_generation
    /\ UNCHANGED <<c_kind, c_jump_host, c_pc, c_timeout, c_i, c_clock,
                   c_up_at, c_refuses, c_failure, c_channel, j_sessions,
                   j_connection>>
    /\ UNCHANGED <<c_at_prompt, c_prompt, c_channel_on, j_open>>
    /\ UNCHANGED <<u_vars, w_vars, s_vars, f_vars, m_vars>>

\* TelnetConnection.close(), lines 217-218, and the same lines of reopen,
\* 221-222: the socket is closed and _channel keeps it
CloseSocket ==
    c_connection' = (IF c_connection # None THEN "closed" ELSE c_connection)

\* TelnetConnection.reopen(), lines 220-223
TelnetReopen ==
    /\ c_kind = "telnet"
    /\ c_pc = "idle"
    /\ c_op' = "reopen"
    /\ c_events' = <<>>
    /\ CloseSocket
    /\ c_ret' = Invoke(TelnetConnectionMethods, "_connect")
    /\ UNCHANGED <<c_kind, c_jump_host, c_pc, c_timeout, c_i, c_clock,
                   c_up_at, c_refuses, c_failure, c_channel, c_generation,
                   j_sessions, j_connection>>
    /\ UNCHANGED <<c_at_prompt, c_prompt, c_channel_on, j_open>>
    /\ UNCHANGED <<u_vars, w_vars, s_vars, f_vars, m_vars>>

\* TelnetConnection.expect_disconnect(), line 226: close()
TelnetExpectDisconnect ==
    /\ c_kind = "telnet"
    /\ c_pc = "idle"
    /\ c_op' = "expect_disconnect"
    /\ c_events' = <<"close">>
    /\ CloseSocket
    /\ c_pc' = "grace"
    /\ c_clock' = 0 - GracePeriod
    /\ c_ret' = "running"
    /\ UNCHANGED <<c_kind, c_jump_host, c_timeout, c_i, c_up_at, c_refuses,
                   c_failure, c_channel, c_generation, j_sessions,
                   j_connection>>
    /\ UNCHANGED <<c_at_prompt, c_prompt, c_channel_on, j_open>>
    /\ UNCHANGED <<u_vars, w_vars, s_vars, f_vars, m_vars>>

NextReconnect ==
    \/ SSHInit
    \/ InvokeShell
    \/ Close
    \/ ExpectDisconnect
    \/ SleepGracePeriod
    \/ Reopen
    \/ WaitConnectionRound
    \/ WaitConnectionGivesUp
    \/ ReopenConnect
    \/ ReopenRaises
    \/ TelnetOpen
    \/ TelnetReopen
    \/ TelnetExpectDisconnect
    \/ ShellCommand

-----------------------------------------------------------------------------
(* version.py and expect.py: the functions under call *)

\* sep.join(fields)
RECURSIVE Join(_, _)
Join(fields, sep) ==
    IF Len(fields) = 1 THEN fields[1]
    ELSE fields[1] \o sep \o Join(Tail(fields), sep)

\* the fields of the generated version strings: numbers below and above
\* ten, an empty field and a letter
VersionFields == {<<"0">>, <<"9">>, <<"1", "0">>, <<>>, <<"a">>}

\* other spellings: blanks around the number, a sign, an underscore, a
\* leading zero, a suffix, and misplaced signs and underscores
OtherSpellings ==
    { <<" ", "9">>, <<"9", " ">>, <<"+", "9">>, <<"1", "_", "0">>,
      <<"0", "9">>, <<"9", "-", "b">>, <<"-", "9">>, <<"_", "9">>,
      <<"9", "_">>, <<"9", "+">> }

\* the arguments compare_version is called with
VersionArguments ==
    { Join(f, <<".">>) :
        f \in UNION {[1..k -> VersionFields] : k \in 1..MaxParts} }
    \cup OtherSpellings

\* pre-release tags
Suffixes == {<<"b">>, <<"b", "-", "1", ".", "9">>}

VersionInputs ==
    /\ v_a \in VersionArguments
    /\ v_b \in VersionArguments
    /\ v_s = <<>>
    /\ v_t = <<>>
    /\ v_op = "none"
    /\ v_ret = None
    /\ v_other = None

\* the keys and the values of the answer tables
AnswerKeys == {<<"?">>, <<"a", "?">>, <<"!">>, <<>>}
AnswerValues == {Reply(<<"y">>), Reply(<<"n">>), BREAK}

\* dicts of up to MaxAnswers keys: the keys of a dict are distinct
AnswerTables ==
    { t \in SeqsUpTo([key : AnswerKeys, value : AnswerValues], MaxAnswers) :
        \A i, j \in DOMAIN t : i # j => t[i].key # t[j].key }

ExpectInputs ==
    /\ e_answers \in AnswerTables
    /\ e_row \in SeqsUpTo({"a", "?", "!"}, MaxRow)
    /\ e_op = "none"
    /\ e_ret = None

FunctionsIdle ==
    /\ v_a = <<>>
    /\ v_b = <<>>
    /\ v_s = <<>>
    /\ v_t = <<>>
    /\ v_op = "off"
    /\ v_ret = None
    /\ v_other = None
    /\ e_answers = <<>>
    /\ e_row = <<>>
    /\ e_op = "off"
    /\ e_ret = None

\* compare_version(a, b)
CompareVersion ==
    /\ v_op = "none"
    /\ v_op' = "compared"
    /\ v_ret' = compare_version(v_a, v_b)
    /\ UNCHANGED <<v_a, v_b, v_s, v_t, v_other>>
    /\ UNCHANGED <<e_answers, e_row, e_op, e_ret>>
    /\ UNCHANGED <<u_vars, w_vars, s_vars, c_vars, m_vars>>

\* compare_version(a, b) and compare_version(b, a)
CompareBothWays ==
    /\ v_op = "none"
    /\ v_op' = "both_ways"
    /\ v_ret' = compare_version(v_a, v_b)
    /\ v_other' = compare_version(v_b, v_a)
    /\ UNCHANGED <<v_a, v_b, v_s, v_t>>
    /\ UNCHANGED <<e_answers, e_row, e_op, e_ret>>
    /\ UNCHANGED <<u_vars, w_vars, s_vars, c_vars, m_vars>>

\* compare_version(a, b) and compare_version(a + "-" + s, b + "-" + t)
CompareWithSuffixes ==
    /\ v_op = "none"
    /\ v_op' = "suffixed"
    /\ v_s' \in Suffixes
    /\ v_t' \in Suffixes
    /\ v_ret' = compare_version(v_a, v_b)
    /\ v_other' = compare_version(v_a \o <<"-">> \o v_s',
                                  v_b \o <<"-">> \o v_t')
    /\ UNCHANGED <<v_a, v_b>>
    /\ UNCHANGED <<e_answers, e_row, e_op, e_ret>>
    /\ UNCHANGED <<u_vars, w_vars, s_vars, c_vars, m_vars>>

\* compare_version(a, b) and compare_version(a + ".0", b)
CompareWithTrailingZero ==
    /\ v_op = "none"
    /\ v_op' = "extended"
    /\ v_ret' = compare_version(v_a, v_b)
    /\ v_other' = compare_version(v_a \o <<".", "0">>, v_b)
    /\ UNCHANGED <<v_a, v_b, v_s, v_t>>
    /\ UNCHANGED <<e_answers, e_row, e_op, e_ret>>
    /\ UNCHANGED <<u_vars, w_vars, s_vars, c_vars, m_vars>>

NextVersion ==
    \/ CompareVersion
    \/ CompareBothWays
    \/ CompareWithSuffixes
    \/ CompareWithTrailingZero

\* expect_strings(answers)(row)
HandleRow ==
    /\ e_op = "none"
    /\ e_op' = "handled"
    /\ e_ret' = expect_handler(e_answers, e_row)
    /\ UNCHANGED <<e_answers, e_row>>
    /\ UNCHANGED <<v_a, v_b, v_s, v_t, v_op, v_ret, v_other>>
    /\ UNCHANGED <<u_vars, w_vars, s_vars, c_vars, m_vars>>

NextExpect == HandleRow

-----------------------------------------------------------------------------
(* models/routeros.py and models/delln.py: upgrade *)

\* routeros.py line 268: for i in range(5)
FirmwarePolls == 5

Executed(command, outcome) ==
    [event |-> "execute", command |-> command, outcome |-> outcome]

Disconnected(outcome) ==
    [event |-> "expect_disconnect", command |-> "", outcome |-> outcome]

\* how a command ends on a real run: with its output, with TimeoutError
\* when the device stays silent, with CommandError when RouterOS.command
\* finds an error in the output (RouterOS only: raise_on_errors of delln.py
\* walks the characters of the output and finds none), or with the
\* exception of a broken connection
CommandOutcomes(proc) ==
    {"returned", "TimeoutError", "OSError"}
    \cup (IF proc = "RouterOS.upgrade" THEN {"CommandError"} ELSE {})

\* the places that execute the restart command
RestartSites ==
    {"RouterOS.upgrade", "RouterOS.upgrade_firmware", "DellN.upgrade"}

\* Swallowed letting every exception of the restart command through
Swallowed_Nothing(site, exception) == FALSE

\* the except clauses around the restart command: routeros.py lines 242-246
\* (TimeoutError and Exception), line 279 and delln.py line 161
\* (TimeoutError)
Swallowed(site, exception) ==
    IF site = "RouterOS.upgrade" THEN TRUE ELSE exception = "TimeoutError"

ModelUpgradeInputs ==
    /\ m_proc \in {"RouterOS.upgrade", "DellN.upgrade"}
    /\ m_dry_run \in BOOLEAN
    /\ m_pending \in (IF m_proc = "RouterOS.upgrade" THEN BOOLEAN ELSE {FALSE})
    /\ m_pc = "start"
    /\ m_i = 0
    /\ m_log = <<>>
    /\ m_ret = "running"
    /\ d_status = "none"

ModelsIdle ==
    /\ m_proc = "none"
    /\ m_dry_run = FALSE
    /\ m_pending = FALSE
    /\ m_pc = "off"
    /\ m_i = 0
    /\ m_log = <<>>
    /\ m_ret = "running"
    /\ d_status = "none"

\* the method ends
ModelReturns(value) ==
    /\ m_pc' = "done"
    /\ m_ret' = value

\* routeros.py lines 199-235 and delln.py lines 108-151: the image is
\* brought to the device and made the next to boot, or a step raises
UploadImage ==
    /\ m_pc = "start"
    /\ \E outcome \in {"returned", "CommandError"} :
        /\ m_log' = Append(m_log, Executed("upload", outcome))
        /\ IF outcome = "returned"
           THEN m_pc' = "restart" /\ UNCHANGED m_ret
           ELSE ModelReturns(outcome)
    /\ UNCHANGED <<m_proc, m_dry_run, m_pending, m_i, d_status>>
    /\ UNCHANGED <<u_vars, w_vars, s_vars, c_vars, f_vars>>

\* routeros.py lines 238-246 and delln.py lines 153-165: the restart
\* command.  On a dry run nothing is sent: RouterOS.command returns
\* "DRY RUN"; run_interactive returns None, which raise_on_errors of
\* delln.py cannot iterate over
Restart ==
    /\ m_pc = "restart"
    /\ IF m_dry_run
       THEN /\ UNCHANGED m_log
            /\ IF m_proc = "DellN.upgrade"
               THEN ModelReturns("TypeError")
               ELSE m_pc' = "firmware" /\ UNCHANGED m_ret
       ELSE \E outcome \in CommandOutcomes(m_proc) :
            /\ m_log' = Append(m_log, Executed("restart", outcome))
            /\ IF outcome = "returned" \/ Swallowed(m_proc, outcome)
               THEN m_pc' = "disconnect" /\ UNCHANGED m_ret
               ELSE ModelReturns(outcome)
    /\ UNCHANGED <<m_proc, m_dry_run, m_pending, m_i, d_status>>
    /\ UNCHANGED <<u_vars, w_vars, s_vars, c_vars, f_vars>>

\* routeros.py lines 248-252 and delln.py lines 168-171:
\* connection.expect_disconnect(), which returns or raises
ExpectDisconnectAfterRestart ==
    /\ m_pc = "disconnect"
    /\ \E outcome \in {"returned", "ConnectionError"} :
        /\ m_log' = Append(m_log, Disconnected(outcome))
        /\ IF outcome # "returned" THEN ModelReturns(outcome)
           ELSE IF m_proc = "DellN.upgrade" THEN ModelReturns("True")
           ELSE m_pc' = "firmware" /\ UNCHANGED m_ret
    /\ UNCHANGED <<m_proc, m_dry_run, m_pending, m_i, d_status>>
    /\ UNCHANGED <<u_vars, w_vars, s_vars, c_vars, f_vars>>

\* upgrade_firmware, routeros.py lines 254-263 and 292-295: the firmware
\* versions are read, on a dry run too (line 256 passes no dry_run); a
\* CommandError ends the method with True
FirmwarePrint ==
    /\ m_pc = "firmware"
    /\ \E outcome \in CommandOutcomes(m_proc) :
        /\ m_log' = Append(m_log, Executed("print", outcome))
        /\ IF outcome = "CommandError" THEN ModelReturns("True")
           ELSE IF outcome # "returned" THEN ModelReturns(outcome)
           ELSE IF m_pending THEN m_pc' = "firmware_upgrade" /\ UNCHANGED m_ret
           ELSE ModelReturns("True")
    /\ UNCHANGED <<m_proc, m_dry_run, m_pending, m_i, d_status>>
    /\ UNCHANGED <<u_vars, w_vars, s_vars, c_vars, f_vars>>

\* routeros.py lines 264-267: /system routerboard upgrade
FirmwareUpgrade ==
    /\ m_pc = "firmware_upgrade"
    /\ IF m_dry_run
       THEN /\ m_pc' = "firmware_restart"
            /\ UNCHANGED <<m_log, m_ret, m_i>>
       ELSE \E outcome \in CommandOutcomes(m_proc) :
            /\ m_log' = Append(m_log, Executed("upgrade", outcome))
            /\ IF outcome = "returned"
               THEN m_pc' = "poll" /\ m_i' = 0 /\ UNCHANGED m_ret
               ELSE ModelReturns(outcome) /\ UNCHANGED m_i
    /\ UNCHANGED <<m_proc, m_dry_run, m_pending, d_status>>
    /\ UNCHANGED <<u_vars, w_vars, s_vars, c_vars, f_vars>>

\* routeros.py lines 268-274: one round of the wait for 'please reboot';
\* command() raises, or the text is there, or the round is used up and
\* after the last one RuntimeError is raised
FirmwarePoll ==
    /\ m_pc = "poll"
    /\ \E outcome \in CommandOutcomes(m_proc), ready \in BOOLEAN :
        /\ m_log' = Append(m_log, Executed("print", outcome))
        /\ IF outcome # "returned" THEN ModelReturns(outcome) /\ UNCHANGED m_i
           ELSE IF ready
           THEN m_pc' = "firmware_restart" /\ UNCHANGED <<m_ret, m_i>>
           ELSE IF m_i + 1 < FirmwarePolls
           THEN m_i' = m_i + 1 /\ UNCHANGED <<m_pc, m_ret>>
           ELSE ModelReturns("RuntimeError") /\ UNCHANGED m_i
    /\ UNCHANGED <<m_proc, m_dry_run, m_pending, d_status>>
    /\ UNCHANGED <<u_vars, w_vars, s_vars, c_vars, f_vars>>

\* routeros.py lines 276-283: the restart after the firmware upgrade; a
\* dry run ends here with True
FirmwareRestart ==
    /\ m_pc = "firmware_restart"
    /\ IF m_dry_run
       THEN ModelReturns("True") /\ UNCHANGED m_log
       ELSE \E outcome \in CommandOutcomes(m_proc) :
            /\ m_log' = Append(m_log, Executed("restart", outcome))
            /\ IF outcome = "returned"
                  \/ Swallowed("RouterOS.upgrade_firmware", outcome)
               THEN m_pc' = "firmware_disconnect" /\ UNCHANGED m_ret
               ELSE ModelReturns(outcome)
    /\ UNCHANGED <<m_proc, m_dry_run, m_pending, m_i, d_status>>
    /\ UNCHANGED <<u_vars, w_vars, s_vars, c_vars, f_vars>>

\* routeros.py line 285
FirmwareExpectDisconnect ==
    /\ m_pc = "firmware_disconnect"
    /\ \E outcome \in {"returned", "ConnectionError"} :
        /\ m_log' = Append(m_log, Disconnected(outcome))
        /\ IF outcome = "returned"
           THEN m_pc' = "firmware_check" /\ UNCHANGED m_ret
           ELSE ModelReturns(outcome)
    /\ UNCHANGED <<m_proc, m_dry_run, m_pending, m_i, d_status>>
    /\ UNCHANGED <<u_vars, w_vars, s_vars, c_vars, f_vars>>

\* routeros.py lines 287-295: the firmware versions are read again and
\* compared
FirmwareCheck ==
    /\ m_pc = "firmware_check"
    /\ \E outcome \in CommandOutcomes(m_proc), same \in BOOLEAN :
        /\ m_log' = Append(m_log, Executed("print", outcome))
        /\ IF outcome # "returned" THEN ModelReturns(outcome)
           ELSE ModelReturns(IF same THEN "True" ELSE "False")
    /\ UNCHANGED <<m_proc, m_dry_run, m_pending, m_i, d_status>>
    /\ UNCHANGED <<u_vars, w_vars, s_vars, c_vars, f_vars>>

NextModelUpgrade ==
    \/ UploadImage
    \/ Restart
    \/ ExpectDisconnectAfterRestart
    \/ FirmwarePrint
    \/ FirmwareUpgrade
    \/ FirmwarePoll
    \/ FirmwareRestart
    \/ FirmwareExpectDisconnect
    \/ FirmwareCheck

-----------------------------------------------------------------------------
(* Specifications *)

\* bytes of a session with no callback: text, the prompt, a space, a line
\* end and a two-byte character
PromptAlphabet == {"a", ">", " ", "\n", LeadByte, ContinuationByte}

\* bytes of a session with a callback
CallbackAlphabet == {"a", ">", "\n", "?", "!"}

\* generic_upgrade, over every image, list of extra images and model
Init ==
    UpgradeInputs /\ WaitIdle /\ SessionIdle /\ ReconnectIdle /\ FunctionsIdle
    /\ ModelsIdle

Spec == Init /\ [][Next]_vars

\* update of netcommand.py, over every image, list of extra images and model
InitUpdate ==
    UpdateInputs /\ WaitIdle /\ SessionIdle /\ ReconnectIdle /\ FunctionsIdle
    /\ ModelsIdle

SpecUpdate == InitUpdate /\ [][NextUpdate]_vars

\* wait_prompt_with_callback without a callback
InitWait ==
    WaitInputs(PromptAlphabet, {None}) /\ UpgradeIdle /\ SessionIdle
    /\ ReconnectIdle /\ FunctionsIdle
    /\ ModelsIdle

SpecWait == InitWait /\ [][NextWait]_vars

\* wait_prompt_with_callback with the callback of expect_strings
InitWaitCallback ==
    WaitInputs(CallbackAlphabet, {"expect_strings"}) /\ UpgradeIdle
    /\ SessionIdle /\ ReconnectIdle /\ FunctionsIdle
    /\ ModelsIdle

SpecWaitCallback == InitWaitCallback /\ [][NextWait]_vars

\* the prompts of the models: ">" (models/model.py) and "# " (models/dellos10.py)
Prompts == {<<">">>, <<"#", " ">>}

\* bytes of a session on either prompt: text, the prompt characters, a
\* space and a line end
StripAlphabet == {"a", ">", "#", " ", "\n"}

\* wait_prompt_with_callback without a callback, on either prompt
InitWaitPrompts ==
    /\ w_pc = "loop"
    /\ stream \in SeqsUpTo(StripAlphabet, MaxStream)
    /\ prompt \in Prompts
    /\ timeout \in 0..MaxTimeout
    /\ min_input_length \in 0..MaxMinLen
    /\ row_callback = None
    /\ data = <<>>
    /\ times_sleep = 0
    /\ at_prompt = FALSE
    /\ sent = <<>>
    /\ cb_rows = <<>>
    /\ w_text = <<>>
    /\ w_ret = "running"
    /\ UpgradeIdle
    /\ SessionIdle
    /\ ReconnectIdle
    /\ FunctionsIdle
    /\ ModelsIdle

SpecWaitPrompts == InitWaitPrompts /\ [][NextWait]_vars

\* bytes an endless device repeats
EndlessAlphabet == {"a", ">", LeadByte, ContinuationByte}

\* wait_prompt_with_callback without a callback, on a device that repeats a
\* script of at least one byte for ever
InitWaitEndless ==
    /\ w_pc = "loop"
    /\ stream \in SeqsUpTo(EndlessAlphabet, MaxScript) \ {<<>>}
    /\ prompt = <<">">>
    /\ timeout \in 0..MaxTimeout
    /\ min_input_length \in 0..MaxMinLen
    /\ row_callback = None
    /\ data = <<>>
    /\ times_sleep = 0
    /\ at_prompt = FALSE
    /\ sent = <<>>
    /\ cb_rows = <<>>
    /\ w_text = <<>>
    /\ w_ret = "running"
    /\ UpgradeIdle
    /\ SessionIdle
    /\ ReconnectIdle
    /\ FunctionsIdle
    /\ ModelsIdle

\* the while loop keeps running: while an iteration is possible, one is
\* taken
SpecWaitEndless ==
    InitWaitEndless /\ [][NextWaitEndless]_vars /\ WF_vars(NextWaitEndless)

\* a Telnet or SSH session, from its construction on
InitSession ==
    SessionInputs /\ UpgradeIdle /\ ReconnectIdle /\ FunctionsIdle
    /\ ModelsIdle

SpecSession == InitSession /\ [][NextSession]_vars

\* a Telnet or SSH session of a device that logs in and answers a command,
\* run with a timeout above the default
InitRunTimeout ==
    /\ SessionInputs
    /\ script \in {LoginOK \o Response, <<">">> \o Response}
    /\ UpgradeIdle
    /\ ReconnectIdle
    /\ FunctionsIdle
    /\ ModelsIdle

SpecRunTimeout == InitRunTimeout /\ [][NextRunTimeout]_vars

\* an SSH or Telnet session that is closed and reopened
InitReconnect ==
    ReconnectInputs /\ UpgradeIdle /\ WaitIdle /\ SessionIdle /\ FunctionsIdle
    /\ ModelsIdle

SpecReconnect == InitReconnect /\ [][NextReconnect]_vars

\* compare_version over the generated arguments
InitVersion ==
    /\ VersionInputs
    /\ e_answers = <<>> /\ e_row = <<>> /\ e_op = "off" /\ e_ret = None
    /\ UpgradeIdle /\ WaitIdle /\ SessionIdle /\ ReconnectIdle
    /\ ModelsIdle

SpecVersion == InitVersion /\ [][NextVersion]_vars

\* the handler of expect_strings over the answer tables and rows
InitExpect ==
    /\ ExpectInputs
    /\ v_a = <<>> /\ v_b = <<>> /\ v_s = <<>> /\ v_t = <<>>
    /\ v_op = "off" /\ v_ret = None /\ v_other = None
    /\ UpgradeIdle /\ WaitIdle /\ SessionIdle /\ ReconnectIdle
    /\ ModelsIdle

SpecExpect == InitExpect /\ [][NextExpect]_vars

\* upgrade of a RouterOS or a Dell N-series model
InitModelUpgrade ==
    /\ ModelUpgradeInputs
    /\ UpgradeIdle /\ WaitIdle /\ SessionIdle /\ ReconnectIdle
    /\ FunctionsIdle

SpecModelUpgrade == InitModelUpgrade /\ [][NextModelUpgrade]_vars

-----------------------------------------------------------------------------
(* Properties of generic_upgrade, checked under Spec *)

\* some call of the method is in the log
Called(method) == \E i \in DOMAIN calls : calls[i].call = method

\* some call of the method that ended with the result is in the log
CalledWith(method, result) ==
    \E i \in DOMAIN calls : calls[i] = Call(method, result)

NoDeviceMutation == ~Called("save_config") /\ ~Called("upgrade")

Returned(value) == u_pc = "done" /\ u_ret = value

\* compare_version(a, b) returned, and returned a value in the set
Compares(a, b, values) ==
    /\ ~compare_version(a, b).raises
    /\ compare_version(a, b).value \in values

\* the checks of lines 19-39 have run
Started == u_pc \notin {"idle", "start"}

\* C1: No downgrade: when the image platform equals the device platform and
\* compare_version(image.version, current_version) < 0, generic_upgrade
\* returns False and calls neither model.save_config nor model.upgrade.
C1_NoDowngrade ==
    (/\ Started
     /\ image.platform = dev_platform
     /\ Compares(image.version, current_version, {-1}))
    => Returned("False") /\ NoDeviceMutation

C1_Witness ==
    /\ Started
    /\ image.platform = dev_platform
    /\ Compares(image.version, current_version, {-1})
    /\ Returned("False")

\* C2: Platform guard: when image.platform differs from the platform the
\* model reports, generic_upgrade returns False without calling
\* model.save_config or model.upgrade, whatever the two versions are.
C2_PlatformGuard ==
    (Started /\ image.platform # dev_platform)
    => Returned("False") /\ NoDeviceMutation

\* a newer image for another platform has been rejected
C2_Witness ==
    /\ Started
    /\ image.platform # dev_platform
    /\ Compares(image.version, current_version, {1})
    /\ Returned("False")

\* C3: Idempotent re-run: when the image platform matches and image.version
\* equals the current software version, generic_upgrade returns True and
\* calls neither model.save_config nor model.upgrade, for any extra_images
\* and both values of dry_run.
C3_IdempotentRerun ==
    (/\ Started
     /\ image.platform = dev_platform
     /\ image.version = current_version)
    => Returned("True") /\ NoDeviceMutation

\* a real run that returned True at once although an extra image is for
\* another platform
C3_Witness ==
    /\ Started
    /\ image.platform = dev_platform
    /\ image.version = current_version
    /\ ~dry_run
    /\ \E i \in DOMAIN extra_images : extra_images[i].platform # dev_platform
    /\ Returned("True")

\* lines 77-102 have run on a real run, after a truthy model.upgrade
RealRunVerified ==
    /\ u_pc = "done"
    /\ ~dry_run
    /\ CalledWith("upgrade", "truthy")

\* C4 as stated: on a real run with a truthy model.upgrade, generic_upgrade
\* returns True if and only if the re-queried software version equals
\* image.version exactly (as a string), and False otherwise.
C4_ExactEquality ==
    RealRunVerified
    => /\ u_ret \in {"True", "False"}
       /\ (u_ret = "True") <=> (updated_version = image.version)

\* C4 as amended: on a real run with a truthy model.upgrade, generic_upgrade
\* returns True if and only if compare_version(updated_version,
\* image.version) == 0, that is when the two are equal after the -suffix is
\* dropped and the shorter is zero-padded; it returns False otherwise.
C4_StrictPostCheck ==
    RealRunVerified
    => /\ u_ret \in {"True", "False"}
       /\ (u_ret = "True") <=> Compares(updated_version, image.version, {0})

\* True was returned for a device version that is not the image's string
C4_Witness ==
    /\ RealRunVerified
    /\ u_ret = "True"
    /\ updated_version # image.version

\* C5: save_config failure is fatal: if model.save_config raises, the
\* exception propagates to the caller of generic_upgrade and model.upgrade
\* is not called in that run.
C5_SaveConfigFatal ==
    CalledWith("save_config", "raised")
    => Returned("CommandError") /\ ~Called("upgrade")

C5_Witness ==
    /\ CalledWith("save_config", "raised")
    /\ Returned("CommandError")

\* C6: Failed upgrade step: if model.upgrade returns a falsy result,
\* generic_upgrade returns False and makes no model call after it.
C6_FailedUpgradeStep ==
    CalledWith("upgrade", "falsy")
    => /\ Returned("False")
       /\ calls[Len(calls)] = Call("upgrade", "falsy")
       /\ Cardinality({i \in DOMAIN calls : calls[i].call = "upgrade"}) = 1

C6_Witness ==
    /\ CalledWith("upgrade", "falsy")
    /\ Returned("False")

\* C7: Dry run reports immediately: with dry_run=True and a truthy result of
\* model.upgrade, generic_upgrade returns True and no model call (no
\* get_software_version, no get_firmware_version) follows model.upgrade.
C7_DryRunNoRequery ==
    (dry_run /\ u_pc = "done" /\ CalledWith("upgrade", "truthy"))
    => /\ u_ret = "True"
       /\ calls[Len(calls)].call = "upgrade"

\* an extra image the checks of lines 42-55 reject
Rejected(extra_image) ==
    \/ extra_image.platform # dev_platform
    \/ Compares(extra_image.version, current_version, {-1})

\* an image for the device's platform whose version compares equal
SameVersion(img) ==
    /\ img.platform = dev_platform
    /\ Compares(img.version, current_version, {0})

MainImagePassed ==
    /\ image.platform = dev_platform
    /\ Compares(image.version, current_version, {1})

Queries == {"get_software_version", "get_firmware_version", "get_platform"}

\* C9: Linear sequence without retry: the model calls of a run are the
\* version and platform queries, then save_config, then upgrade, then the
\* post-upgrade queries; upgrade is called only right after save_config
\* has returned without error; save_config and upgrade are each called at
\* most once.
C9_LinearSequence ==
    /\ calls # <<>> => calls[1].call = "get_software_version"
    /\ Cardinality({i \in DOMAIN calls : calls[i].call = "save_config"}) <= 1
    /\ Cardinality({i \in DOMAIN calls : calls[i].call = "upgrade"}) <= 1
    /\ \A i \in DOMAIN calls :
        /\ calls[i].call = "save_config"
           => \A j \in 1..(i - 1) : calls[j].call \in Queries
        /\ calls[i].call = "upgrade"
           => i > 1 /\ calls[i - 1] = Call("save_config", "returned")
        /\ (calls[i].call \in Queries
            /\ \E j \in 1..(i - 1) : calls[j].call \notin Queries)
           => /\ calls[i].call \in {"get_software_version", "get_firmware_version"}
              /\ \E j \in 1..(i - 1) : calls[j] = Call("upgrade", "truthy")

\* a run that went through every step
C9_Witness ==
    /\ u_pc = "done"
    /\ Called("save_config")
    /\ Called("upgrade")
    /\ calls[Len(calls)].call = "get_firmware_version"

-----------------------------------------------------------------------------
(* Properties of wait_prompt_with_callback *)

\* the text accumulated so far is longer than min_input_length and ends
\* with the prompt, or with the prompt and one space
AccumulatedTextEndsAtPrompt ==
    /\ Len(data) > min_input_length
    /\ \/ endswith(data, prompt)
       \/ endswith(data, prompt \o <<" ">>)

\* C10: Prompt detection: with no callback, however the device's bytes are
\* split into chunks and whatever empty polls come in between, as long as
\* these are no more than the timeout: once the accumulated text is longer
\* than min_input_length and ends with the prompt, or with the prompt and a
\* single space, wait_prompt_with_callback has returned reachedPrompt = True.
\* Checked under SpecWait.
C10_PromptDetection ==
    row_callback = None
    => /\ AccumulatedTextEndsAtPrompt => w_ret = "returned" /\ at_prompt
       /\ w_ret = "returned" => at_prompt
       /\ w_ret = "TimeoutError" => times_sleep > timeout

\* the prompt and a space ended a text that came after an empty poll, with
\* a min_input_length above zero and a two-byte character decoded
C10_Witness ==
    /\ row_callback = None
    /\ w_ret = "returned"
    /\ at_prompt
    /\ times_sleep >= 1
    /\ min_input_length >= 1
    /\ endswith(data, prompt \o <<" ">>)
    /\ \E i \in DOMAIN data : data[i] = TwoByteChar

\* where the prompt that ended the wait starts in the buffer d (0-based):
\* the buffer ends with the prompt, or with the prompt and one space
PromptStart(d, p) ==
    IF endswith(d, p) THEN Len(d) - Len(p) ELSE Len(d) - Len(p) - 1

\* C11: Response stripping: whenever wait_prompt_with_callback exits with
\* reachedPrompt = True, the returned text is the part of the accumulated
\* buffer from index min_input_length up to the last newline, and it holds
\* no part of the trailing prompt: it stops at or before the place where
\* the prompt starts, also for a buffer with no newline and for a prompt
\* longer than one character.  Checked under SpecWaitPrompts.
C11_ResponseStripping ==
    (w_ret = "returned" /\ at_prompt)
    => /\ rfind(data, "\n") >= 0
          => w_text = Slice(data, min_input_length, rfind(data, "\n"))
       /\ \E stop \in 0..PromptStart(data, prompt) :
             w_text = Slice(data, min_input_length, stop)

\* C12 as stated: Exact timeout budget: when wait_prompt_with_callback
\* raises TimeoutError, the number of one-second idle sleeps it performed
\* equals timeout, not fewer and not more.  Checked under SpecWait.
C12_ExactTimeoutBudget ==
    w_ret = "TimeoutError" => times_sleep = timeout

\* C12, amended: the number of one-second idle sleeps performed before
\* TimeoutError is raised equals timeout + 1, whatever data arrived in
\* between; as long as no more than timeout sleeps were performed the wait
\* has not raised.  Checked under SpecWait.
C12_TimeoutAfterOneMoreSleep ==
    /\ w_ret = "TimeoutError" => times_sleep = timeout + 1
    /\ times_sleep <= timeout => w_ret # "TimeoutError"

\* TimeoutError on a timeout of at least one second, with data received
\* between the sleeps
C12_Witness ==
    /\ w_ret = "TimeoutError"
    /\ timeout >= 1
    /\ data # <<>>

\* C13: Fail-safe termination: with a callback that never returns
\* stop-waiting, whatever the device does, a device that keeps sending data
\* included: either the prompt appears at the end of the buffer, or
\* wait_prompt_with_callback eventually raises TimeoutError; it never loops
\* for ever.  Checked under SpecWaitEndless.
C13_FailSafeTermination ==
    <>(AccumulatedTextEndsAtPrompt \/ w_ret = "TimeoutError")

\* the lines of the buffer, as line 105 forms them
BufferRows == splitlines(strip(data))

\* C14: Reply before prompt: whenever wait_prompt_with_callback returns
\* reachedPrompt = True and its buffer holds, before the line of the prompt,
\* a line for which the callback returns a reply string, send was called
\* with that reply, also when the line and the prompt arrived in the same
\* chunk.  Checked under SpecWaitCallback.
C14_ReplyBeforePrompt ==
    (w_ret = "returned" /\ at_prompt)
    => \A i \in 1..(Len(BufferRows) - 1) :
         LET action == ApplyCallback(row_callback, BufferRows[i]) IN
         action.kind = "str"
         => \E j \in DOMAIN sent : sent[j] = action.text

\* the replies a callback gives to the rows, in order
RECURSIVE RepliesTo(_, _)
RepliesTo(cb, rows) ==
    IF rows = <<>> THEN <<>>
    ELSE LET action == ApplyCallback(cb, Head(rows)) IN
         (IF action.kind = "str" THEN <<action.text>> ELSE <<>>)
         \o RepliesTo(cb, Tail(rows))

\* C15: Stop-waiting: in every iteration of the wait the lines are passed to
\* the callback in the order they have in the buffer; a line for which the
\* callback returns Actions.BREAK is the last line passed to it, the replies
\* sent in that iteration are those of the lines before it, and the wait
\* returns reachedPrompt = False; it returns reachedPrompt = False in no
\* other way.  Checked under SpecWaitCallback.
C15_StopWaiting ==
    [][times_sleep' = times_sleep =>
       LET new == cb_rows'
           new_sent == SubSeq(sent', Len(sent) + 1, Len(sent'))
           rows == splitlines(strip(data'))
           stopped == new # <<>>
                      /\ ApplyCallback(row_callback, new[Len(new)]) = BREAK IN
       /\ Len(new) <= Len(rows)
       /\ new = SubSeq(rows, 1, Len(new))
       /\ \A i \in DOMAIN new :
            ApplyCallback(row_callback, new[i]) = BREAK => i = Len(new)
       /\ stopped
          => /\ w_pc' = "done" /\ w_ret' = "returned" /\ ~at_prompt'
             /\ new_sent = RepliesTo(row_callback,
                                     SubSeq(new, 1, Len(new) - 1))
       /\ (w_ret' = "returned" /\ ~at_prompt') => stopped
      ]_vars

\* the wait stopped on a line that got Actions.BREAK, with a later line in
\* the buffer that was not passed to the callback
C15_Witness ==
    /\ w_ret = "returned"
    /\ ~at_prompt
    /\ cb_rows # <<>>
    /\ ApplyCallback(row_callback, cb_rows[Len(cb_rows)]) = BREAK
    /\ Len(BufferRows) > Len(cb_rows)

-----------------------------------------------------------------------------
(* Properties of TelnetConnection and SSHConnection, checked under *)
(* SpecSession *)

\* C16: Send only at prompt: for SSH and Telnet sessions, every command
\* run_interactive wrote to the channel was written with the at-prompt flag
\* True; and when the flag was False on entry, _wait_prompt had first read
\* text ending with the prompt (or the prompt and a space).
C16_SendOnlyAtPrompt ==
    \A i \in DOMAIN wire :
        /\ wire[i].at_prompt
        /\ ~wire[i].entry => EndsWithPrompt(wire[i].read, prompt)

\* a Telnet session that sent one command with the flag set on entry and,
\* after a wait that stopped on Actions.BREAK, a second one after reading
\* the prompt
C16_Witness ==
    /\ s_kind = "telnet"
    /\ Len(wire) = 2
    /\ wire[1].entry
    /\ ~wire[2].entry
    /\ wire[2].read # <<>>

\* C17: At-prompt invariant: between calls, after any sequence of
\* run_interactive calls with any outcome (prompt reached, stop-waiting, or
\* an exception raised by the wait), the at-prompt flag is True only if the
\* device has emitted the prompt since the last command was sent: the
\* prompt is in what the wait after that command received.
C17_AtPromptInvariant ==
    (s_pc = "idle" /\ wire # <<>> /\ s_at_prompt) => Contains(data, prompt)

\* connect() was called on a Telnet session and is over
ConnectEnded == s_kind = "telnet" /\ s_op = "connect" /\ s_pc = "idle"

\* connect() got as far as its login step: the socket is connected
SocketConnected == s_channel # None

\* the wait of the login dialog returned reachedPrompt = True
LoginReachedPrompt == w_ret = "returned" /\ at_prompt

\* C18 as stated: Telnet login outcome: connect() returns normally only if
\* a login dialog was supplied and the login exchange ended at the prompt;
\* with no login dialog it raises the configuration error; and whenever the
\* login dialog does not reach the prompt it raises the login-failure
\* error, after a single run of the dialog.
C18_TelnetLoginOutcome ==
    ConnectEnded
    => /\ s_ret = "returned"
          => s_login_dialog # None /\ LoginReachedPrompt
       /\ (s_login_dialog = None /\ SocketConnected)
          => s_ret = "NoLoginDialog"
       /\ (s_login_dialog # None /\ SocketConnected /\ ~LoginReachedPrompt)
          => s_ret = "LoginFailed" /\ logins = 1

\* C18, amended: connect() returns normally only if a login dialog was
\* supplied and the login exchange ended at the prompt, and then the
\* session is at-prompt; with no login dialog it raises the configuration
\* error without running a dialog; when the wait of the login dialog
\* returns without the prompt (the dialog stopped it) connect() raises the
\* login-failure error after a single run of the dialog; when that wait
\* raises (TimeoutError, or the timeout of the socket) connect() raises
\* that exception, also after a single run of the dialog.
C18_LoginOutcomeByWait ==
    ConnectEnded
    => /\ s_ret = "returned"
          => s_login_dialog # None /\ LoginReachedPrompt /\ s_at_prompt
       /\ (s_login_dialog = None /\ SocketConnected)
          => s_ret = "NoLoginDialog" /\ logins = 0
       /\ (s_login_dialog # None /\ SocketConnected /\ w_ret = "returned"
           /\ ~at_prompt)
          => s_ret = "LoginFailed" /\ logins = 1 /\ ~s_at_prompt
       /\ (s_login_dialog # None /\ SocketConnected /\ w_ret # "returned")
          => /\ s_ret = w_ret
             /\ w_ret \in {"TimeoutError", "socket.timeout"}
             /\ logins = 1

\* connect() raised the login-failure error: the dialog stopped on the
\* line of the authentication-failed marker
C18_Witness ==
    /\ ConnectEnded
    /\ s_ret = "LoginFailed"
    /\ logins = 1
    /\ \E i \in DOMAIN BufferRows : startswith(BufferRows[i], AuthFailedMarker)

\* the device transcript s emits the username prompt, then the password
\* prompt, then output that ends in the prompt p
IsLoginTranscript(s, p) ==
    \E i \in 0..(Len(s) - Len(UsernamePrompt)),
       j \in 0..(Len(s) - Len(PasswordPrompt)) :
        /\ SubSeq(s, i + 1, i + Len(UsernamePrompt)) = UsernamePrompt
        /\ j >= i + Len(UsernamePrompt)
        /\ SubSeq(s, j + 1, j + Len(PasswordPrompt)) = PasswordPrompt
        /\ Len(s) > j + Len(PasswordPrompt)
        /\ EndsWithPrompt(s, p)

\* a line of the transcript s starts with the authentication-failed marker
HasDeniedLine(s) ==
    \E i \in DOMAIN splitlines(strip(s)) :
        startswith(splitlines(strip(s))[i], AuthFailedMarker)

\* a Telnet session with the login dialog of IOS on a device that emits a
\* login transcript
LoginTranscriptSession ==
    /\ s_kind = "telnet"
    /\ s_login_dialog = "login_dialog"
    /\ IsLoginTranscript(script, prompt)

\* what C19 promises of the login: its wait ends when the transcript is
\* out, it returns at the prompt, and a connect() that was not cut short
\* by a device pausing longer than the timeout of the socket returns
\* normally with the session at-prompt
LoginSucceeds ==
    /\ (s_pc = "login" /\ stream = <<>>)
       => w_pc = "done" /\ w_ret = "returned"
    /\ (s_pc = "login" /\ w_pc = "done" /\ w_ret = "returned") => at_prompt
    /\ (ConnectEnded /\ SocketConnected /\ s_ret # "socket.timeout")
       => s_ret = "returned" /\ s_at_prompt

\* C19 as stated: Telnet login success: with the login dialog that answers
\* "Username:" with the username and "Password:" with the password, for
\* every device transcript that emits the username prompt, then the
\* password prompt, then output ending in the configured prompt, in any
\* chunking, connect() completes without raising and leaves the session
\* at-prompt.
C19_TelnetLoginSuccess == LoginTranscriptSession => LoginSucceeds

\* C19, amended: the same, for the transcripts none of whose lines starts
\* with the authentication-failed marker.
C19_LoginSuccessWithoutDenial ==
    (LoginTranscriptSession /\ ~HasDeniedLine(script)) => LoginSucceeds

\* the login wait ended at the prompt after both replies were sent, on a
\* device that echoes the username and ends its lines
C19_Witness ==
    /\ LoginTranscriptSession
    /\ script = LoginEcho
    /\ s_pc = "login"
    /\ w_pc = "done"
    /\ at_prompt
    /\ sent = <<Username \o <<"\n">>, Password \o <<"\n">>>>

\* C20: Telnet lazy connect: a TelnetConnection opens no socket at
\* construction; the first run_interactive on a never-connected session
\* that has a login dialog connects and logs in exactly once; and then, the login having left the
\* session at-prompt, it sends the command: _wait_prompt does not read for
\* a prompt while the session is at-prompt, and a command sent by a call
\* that found the session at-prompt is sent without any read before it.
C20_TelnetLazyConnect ==
    s_kind = "telnet"
    => /\ s_op = "none" => (s_channel = None /\ connects = 0)
       /\ connects <= 1 /\ logins <= 1
       /\ (s_lazy /\ s_login_dialog # None
           /\ s_pc \in {"wait_prompt", "engine"})
          => (connects = 1 /\ logins = 1)
       /\ s_pc = "wait_prompt" => ~s_at_prompt
       /\ \A i \in DOMAIN wire : wire[i].entry => wire[i].read = <<>>

-----------------------------------------------------------------------------
(* Properties of reopen and expect_disconnect, checked under SpecReconnect *)

Probes == {"probe_ok", "probe_failed"}
Handshakes == {"handshake", "jump_host_handshake"}

\* C21: Reconnect ordering (SSH expect_disconnect): the shell channel and
\* the connection are closed first, then the grace period elapses, then TCP
\* reachability of the target port is probed, and the SSH handshake is
\* attempted only after a probe has succeeded; no probe and no handshake
\* happens before the close and the grace period.
C21_ReconnectOrdering ==
    (c_kind = "ssh" /\ c_op = "expect_disconnect")
    => /\ \A i \in DOMAIN c_events :
            /\ c_events[i] \in Probes \cup Handshakes
               => /\ i > 3
                  /\ SubSeq(c_events, 1, 3) = <<"close_channel", "close", "sleep">>
            /\ c_events[i] \in Handshakes
               => \E j \in 1..(i - 1) : c_events[j] = "probe_ok"
       /\ c_pc \in {"grace", "poll", "raise"}
          => c_channel = None /\ c_connection = "closed"
       /\ c_pc = "grace" => c_clock = 0 - GracePeriod
       /\ c_pc \in {"poll", "loop", "raise"} => c_clock >= 0

\* expect_disconnect returned after a probe that failed, a probe that
\* succeeded and the handshake
C21_Witness ==
    /\ c_kind = "ssh"
    /\ c_op = "expect_disconnect"
    /\ c_pc = "idle"
    /\ c_ret = "returned"
    /\ c_events = <<"close_channel", "close", "sleep", "probe_failed",
                    "probe_ok", "handshake">>

\* reopen, called on its own or by expect_disconnect, is over
ReopenEnded ==
    /\ c_kind = "ssh"
    /\ c_op \in {"reopen", "expect_disconnect"}
    /\ c_pc = "idle"

\* the target port is reachable, and a handshake would succeed, before the
\* deadline of the call
ReconnectPossible ==
    c_failure = "none" /\ c_up_at # Never /\ c_up_at < c_timeout

\* C22: Reconnect outcome (SSH reopen): reopen(timeout) raises
\* ConnectionError only if the deadline elapsed without a successful
\* reconnect; for every timeout value, if the target port becomes reachable
\* and a handshake would succeed before the deadline, reopen polls,
\* performs the handshake and returns with the new connection installed in
\* the session.
C22_ReconnectOutcome ==
    ReopenEnded
    => /\ c_ret = "ConnectionError" => c_clock >= c_timeout
       /\ ReconnectPossible
          => /\ c_ret = "returned"
             /\ c_connection = "open"
             /\ c_events[Len(c_events)] = "handshake"

\* C23: Telnet rebuild: after reopen() or expect_disconnect() returns on a
\* Telnet session, the old socket is closed and the session holds a newly
\* connected, logged-in socket; if the device cannot be reached the call
\* fails with ConnectionError and with no other kind of error.  So a call
\* that is over has returned with an open socket, or it has raised
\* ConnectionError, and on a device that can be reached it has returned.
C23_TelnetRebuild ==
    (c_kind = "telnet" /\ c_op \in {"reopen", "expect_disconnect"}
     /\ c_pc = "idle")
    => /\ \/ c_ret = "returned" /\ c_connection = "open"
          \/ c_ret = "ConnectionError"
       /\ Reachable(0) => c_ret = "returned"

\* C24: Distinguished connection error: every transport-level failure while
\* establishing an SSH connection (resolution, socket connect refused or
\* timed out, handshake, authentication, jump-host tunnel setup) surfaces
\* from _connect as ConnectionError, so that reopen, whose loop catches
\* ConnectionError, ends only by returning or by its own ConnectionError
\* and never with another exception.
C24_DistinguishedConnectionError ==
    (c_kind = "ssh" /\ c_pc \in {"idle", "failed"}
     /\ c_op \in {"__init__", "reopen", "expect_disconnect"})
    => c_ret \in {"returned", "ConnectionError"}

\* an SSH session with a jump host was constructed, reconnected, and closed
JumpHostSessionClosed ==
    /\ c_kind = "ssh"
    /\ c_jump_host
    /\ c_op = "close"
    /\ c_pc = "idle"

\* C25: Jump-host ownership: an SSH session configured with a jump host
\* creates at most one inner jump-host session object and reuses it on
\* every later reconnect, and close() on the outer session also closes the
\* inner jump-host session, so after close() neither the outer nor the
\* inner connection is open.
C25_JumpHostOwnership ==
    /\ j_sessions <= 1
    /\ (c_kind = "ssh" /\ c_jump_host /\ c_connection = "open")
       => j_sessions = 1
    /\ JumpHostSessionClosed
       => c_connection = "closed" /\ j_connection = "closed"

\* close() after the session was connected by __init__ and reconnected
\* twice through the one jump-host session
C25_Witness ==
    /\ JumpHostSessionClosed
    /\ c_generation = 3
    /\ j_sessions = 1
    /\ c_connection = "closed"
    /\ j_connection = "closed"

(***************************************************************************)
(* Properties of the handler of expect_strings, checked under SpecExpect   *)
(***************************************************************************)

\* the positions of the keys of the table that are substrings of the row
MatchingKeys == {i \in DOMAIN e_answers : Contains(e_row, e_answers[i].key)}

\* C26: Row-callback answer table: the handler built by expect_strings
\* returns, for every line, the value of the first key in insertion order
\* that is a substring of the line, and None when no key is a substring of
\* the line.
C26_RowCallbackAnswerTable ==
    e_op = "handled"
    => IF MatchingKeys = {}
       THEN e_ret = NoAction
       ELSE \E i \in MatchingKeys :
               /\ \A j \in MatchingKeys : i <= j
               /\ e_ret = e_answers[i].value

\* two keys are substrings of the row, their values differ, and the handler
\* answered with the value of the first
C26_Witness ==
    /\ e_op = "handled"
    /\ MatchingKeys = {1, 2}
    /\ e_answers[1].value # e_answers[2].value
    /\ e_answers[1].key # <<>>
    /\ e_ret = e_answers[1].value

(***************************************************************************)
(* Properties of compare_version, checked under SpecVersion                *)
(***************************************************************************)

\* both arguments are well-formed versions
BothParse == VersionParses(v_a) /\ VersionParses(v_b)

\* C27: Version antisymmetry: for all well-formed version strings a and b,
\* compare_version(a, b) == -compare_version(b, a), and in particular
\* compare_version(a, a) == 0.
C27_VersionAntisymmetry ==
    (v_op = "both_ways" /\ BothParse)
    => /\ ~v_ret.raises
       /\ ~v_other.raises
       /\ v_other.value = 0 - v_ret.value
       /\ v_a = v_b => v_ret.value = 0

\* versions of unequal length, the first the greater one, compared both ways
C27_Witness ==
    /\ v_op = "both_ways"
    /\ BothParse
    /\ Len(Parts(v_a)) # Len(Parts(v_b))
    /\ v_ret.value = 1
    /\ v_other.value = 0 - 1

\* C28: Pre-release suffix ignored: for all well-formed versions a and b and
\* all suffixes s and t, compare_version(a + "-" + s, b + "-" + t) ==
\* compare_version(a, b); two versions that differ only by the pre-release
\* tag compare equal.
C28_SuffixIgnored ==
    (v_op = "suffixed" /\ BothParse)
    => /\ ~v_ret.raises
       /\ v_other = v_ret
       /\ Release(v_a) = Release(v_b) => v_other.value = 0

\* one version under two different tags compares equal, and two different
\* versions under tags compare as they do without
C28_Witness ==
    /\ v_op = "suffixed"
    /\ BothParse
    /\ v_s # v_t
    /\ v_a = <<"9">>
    /\ v_b = <<"9">>
    /\ v_other = [raises |-> FALSE, value |-> 0]

\* a is a dotted sequence of non-negative integers in plain digits
DottedIntegers(a) ==
    /\ a # <<>>
    /\ \A i \in 1..Len(a) :
        \/ a[i] \in Digits
        \/ /\ a[i] = "."
           /\ 1 < i /\ i < Len(a)
           /\ a[i - 1] \in Digits /\ a[i + 1] \in Digits

\* the i-th integer of a dotted sequence, 0 beyond its end
IntegerAt(a, i) ==
    LET fields == split(a, ".") IN
    IF i <= Len(fields) THEN DecimalValue(fields[i]) ELSE 0

\* the lexicographic comparison of two dotted sequences, the shorter one
\* taken to go on with zeros
Lexicographic(a, b) ==
    LET n == Len(a) + Len(b)
        differing == {i \in 1..n : IntegerAt(a, i) # IntegerAt(b, i)} IN
    IF differing = {} THEN 0
    ELSE LET first == CHOOSE i \in differing : \A j \in differing : i <= j IN
         IF IntegerAt(a, first) < IntegerAt(b, first) THEN 0 - 1 ELSE 1

\* C29: Version ordering: for all dotted sequences of non-negative integers
\* a and b of any (also unequal) lengths, compare_version(a, b) is in
\* {-1, 0, 1} and equals the lexicographic comparison of the two integer
\* sequences after zero-padding the shorter one on the right; hence a
\* trailing ".0" never changes the result.
C29_VersionOrdering ==
    (DottedIntegers(v_a) /\ DottedIntegers(v_b))
    => /\ v_op \in {"compared", "extended"}
          => /\ ~v_ret.raises
             /\ v_ret.value \in {0 - 1, 0, 1}
             /\ v_ret.value = Lexicographic(v_a, v_b)
       /\ v_op = "extended" => v_other = v_ret

\* a version against a longer one that is greater only in the part the
\* shorter one lacks, and whose first part is smaller as a string of digits
C29_Witness ==
    /\ v_op = "compared"
    /\ v_a = <<"1", "0">>
    /\ v_b = <<"1", "0", ".", "9">>
    /\ v_ret = [raises |-> FALSE, value |-> 0 - 1]

\* field spells a non-negative integer: digits, with single underscores
\* between digits, an optional plus sign before them, blanks around
SpellsNaturalNumber(field) ==
    \E first, last \in 1..Len(field) :
        /\ first <= last
        /\ field[first] \in Digits
        /\ field[last] \in Digits
        /\ \A k \in (first + 1)..(last - 1) :
            \/ field[k] \in Digits
            \/ field[k] = "_" /\ field[k - 1] # "_"
        /\ \A k \in (last + 1)..Len(field) : IsSpace(field[k])
        /\ \A k \in 1..(first - 1) :
            \/ IsSpace(field[k]) /\ (k + 1 < first => field[k + 1] # "+")
            \/ field[k] = "+" /\ k = first - 1

\* some dot-separated segment of a, after the suffix is stripped, is not a
\* non-negative integer
HasBadSegment(a) ==
    LET fields == split(Release(a), ".") IN
    \E i \in 1..Len(fields) : ~SpellsNaturalNumber(fields[i])

\* C30: Version parse error: if any dot-separated segment of either
\* argument (after the suffix is stripped) is not a non-negative integer,
\* including an empty segment, compare_version fails with a parse error and
\* returns no comparison result, whichever argument is malformed and
\* wherever the bad segment is.
C30_VersionParseError ==
    (v_op = "compared" /\ (HasBadSegment(v_a) \/ HasBadSegment(v_b)))
    => v_ret.raises

\* the first argument is well-formed and higher in its first part, the
\* second has its bad segment last
C30_Witness ==
    /\ v_op = "compared"
    /\ v_a = <<"1", "0">>
    /\ v_b = <<"9", ".", "a">>
    /\ v_ret.raises

-----------------------------------------------------------------------------
(* Properties of the callback loop and of the idle timeout of *)
(* wait_prompt_with_callback *)

\* C31: Each line classified once: in every poll iteration the callback is
\* applied only to the complete newline-terminated lines received in that
\* iteration; a line received in an earlier iteration is never classified
\* again, so a line for which the callback returns a reply causes that reply
\* to be sent at most once during one wait: the replies sent are never more
\* than the lines of the buffer that the callback answers.  Checked under
\* SpecWaitCallback.
C31_EachLineClassifiedOnce ==
    Len(sent) <= Len(RepliesTo(row_callback, BufferRows))

\* what send_function was called with in the step
NewlySent == SubSeq(sent', Len(sent) + 1, Len(sent'))

\* C32, as stated: Reply framing: when the callback returns a reply string,
\* the bytes the engine passes to send are that reply terminated by a
\* newline, and after sending the engine continues waiting for the prompt.
\* Checked under SpecWaitCallback.
C32_ReplyFraming ==
    [][\A i \in DOMAIN NewlySent :
          /\ NewlySent[i] # <<>>
          /\ NewlySent[i][Len(NewlySent[i])] = "\n"
          /\ w_pc' = "loop"
      ]_vars

\* C32, amended: when the callback returns a reply string, the bytes the
\* engine passes to send are that reply and nothing more, a newline only
\* where the reply itself ends with one; after sending, the engine
\* continues waiting for the prompt unless a later line of the same
\* iteration gets Actions.BREAK.  Checked under SpecWaitCallback.
C32_ReplySentAsReturned ==
    [][data' # data =>
       LET stopped == cb_rows' # <<>>
                      /\ ApplyCallback(row_callback, cb_rows'[Len(cb_rows')])
                         = BREAK IN
       /\ NewlySent = RepliesTo(row_callback, cb_rows')
       /\ (NewlySent # <<>> /\ ~stopped)
          => /\ w_pc' = "loop"
             /\ w_ret' = "running"
             /\ ~at_prompt'
      ]_vars

\* the question of a line was answered with "y", sent without a newline,
\* and the wait goes on
C32_Witness ==
    /\ w_pc = "loop"
    /\ w_ret = "running"
    /\ row_callback = "expect_strings"
    /\ cb_rows = << <<"a", "?">> >>
    /\ sent = << <<"y">> >>

\* C33: Idle timeout is consecutive: wait_prompt_with_callback raises
\* TimeoutError only when the receive primitive has returned no data for
\* more than timeout consecutive polls; idle polls separated by polls that
\* delivered data do not add up to a timeout.  Hence right after a poll
\* that delivered data, one empty poll raises only if one exceeds timeout.
\* Checked under SpecWait.
C33_IdleTimeoutConsecutive ==
    [][(data' # data /\ w_pc' = "loop")
       => (TimedOut(times_sleep' + 1, timeout') => TimedOut(1, timeout'))
      ]_vars

-----------------------------------------------------------------------------
(* Properties of run_interactive under a timeout above the default, *)
(* checked under SpecRunTimeout *)

\* C34: Per-operation timeout honoured: for both transports,
\* run_interactive(command, timeout=T, ...) runs the Prompt-Wait Engine with
\* idle timeout T, so a command whose response stays silent for longer than
\* the engine default but less than T does not time out: the engine runs
\* under T, and raises TimeoutError only after more than T empty polls.
C34_PerOperationTimeout ==
    (s_op = "run_interactive" /\ s_pc = "engine")
    => /\ timeout = s_timeout
       /\ w_ret = "TimeoutError" => times_sleep > s_timeout

-----------------------------------------------------------------------------
(* Properties of the upgrade methods of the models, checked under *)
(* SpecModelUpgrade *)

\* the entries of the log that are restart commands
Restarts == {i \in DOMAIN m_log : m_log[i].command = "restart"}

\* C35: Expected reboot timeout: in a real (non-dry) model upgrade, a
\* TimeoutError raised by the reboot/reload command does not make the
\* upgrade fail, and after the reboot/reload command the model calls
\* connection.expect_disconnect() before it sends any further command to
\* the device.
C35_ExpectedRebootTimeout ==
    ~m_dry_run
    => \A i \in Restarts :
         /\ (m_log[i].outcome = "TimeoutError" /\ i = Len(m_log))
            => /\ m_ret = "running"
               /\ m_pc \in {"disconnect", "firmware_disconnect"}
         /\ i < Len(m_log) => m_log[i + 1].event = "expect_disconnect"

\* a RouterOS upgrade whose two restart commands both ran into TimeoutError,
\* each followed by expect_disconnect and then by the next command, and
\* which returned True
C35_Witness ==
    /\ ~m_dry_run
    /\ m_proc = "RouterOS.upgrade"
    /\ m_ret = "True"
    /\ \E i, j \in Restarts :
         /\ i < j
         /\ m_log[i].outcome = "TimeoutError"
         /\ m_log[j].outcome = "TimeoutError"
         /\ m_log[i + 1] = Disconnected("returned")
         /\ m_log[i + 2].event = "execute"
         /\ m_log[j + 1] = Disconnected("returned")
         /\ m_log[j + 2] = Executed("print", "returned")

-----------------------------------------------------------------------------
(* Properties of generic_upgrade across its whole run, checked under Spec *)

\* C36: Success means upgraded: on a real (non-dry) run, for every image
\* list and every model behaviour, generic_upgrade returns True only if the
\* device's software version at the moment of return compares equal to
\* image.version; it never returns True while the device still runs a
\* version older than image.version.
C36_SuccessMeansUpgraded ==
    (Returned("True") /\ ~dry_run)
    => Compares(dev_version, image.version, {0})

-----------------------------------------------------------------------------
(* Properties of wait_prompt_with_callback across the ways a stream is *)
(* split into chunks, checked under SpecWaitCallback *)

\* what wait_prompt_with_callback has done once receive_function has
\* delivered the bytes of buffer in one chunk
InOneChunk(buffer) ==
    LET reached == LongEnough(buffer, min_input_length)
                   /\ EndsWithPrompt(buffer, prompt)
        loop == IF LongEnough(buffer, min_input_length) /\ ~reached
                   /\ row_callback # None
                THEN CallbackLoop(row_callback, splitlines(strip(buffer)))
                ELSE [sent |-> <<>>, break_out |-> FALSE, called |-> <<>>] IN
    [returned |-> reached \/ loop.break_out,
     at_prompt |-> reached,
     text |-> IF reached THEN StripPrompt(buffer, min_input_length)
              ELSE IF loop.break_out THEN buffer ELSE <<>>,
     sent |-> loop.sent]

\* C37: Chunking independence: for a fixed byte stream produced by the
\* device and a fixed callback, the result of wait_prompt_with_callback
\* (returned text, reachedPrompt flag) and the sequence of replies sent do
\* not depend on how the stream is split into receive chunks: once the
\* whole stream has been received, in whatever chunks, they are what they
\* are when it is received in one chunk.
C37_ChunkingIndependence ==
    (stream = <<>> /\ data # <<>> /\ w_ret # "TimeoutError")
    => LET one == InOneChunk(data) IN
       /\ (w_ret = "returned") = one.returned
       /\ at_prompt = one.at_prompt
       /\ w_text = one.text
       /\ sent = one.sent

C39_NoLeakedJumpHostConnection ==
    (c_kind = "ssh" /\ c_jump_host)
       => j_open = (IF j_connection = "open" THEN 1 ELSE 0)

\* C40: an update by the command line that is not a dry run and finds the
\* device at the target version calls neither save_config nor upgrade, and
\* no update calls save_config more than once
C40_DriverKeepsSkipSideEffectFree ==
    /\ (/\ u_pc = "returned"
        /\ ~dry_run
        /\ current_version # <<>>
        /\ Compares(current_version, image.version, {0}))
       => NoDeviceMutation
    /\ Cardinality({i \in DOMAIN calls : calls[i].call = "save_config"}) <= 1

====
